---- MODULE Spec2Model ----
(***************************************************************************)
(* A model of the page controller of rod (src/page.go): the per-page       *)
(* event dispatcher, Page.Event, Close, Navigate and Reload, the waits and *)
(* HandleDialog and Screenshot, over an event stream on which the browser  *)
(* delivers envelopes in any order; and of the input devices of a page     *)
(* (src/input.go): Keyboard, KeyActions and Mouse.                         *)
(***************************************************************************)
EXTENDS Integers, Sequences, FiniteSets, TLC

(* ------------------------------ bounds --------------------------------- *)

\* Number of envelopes the browser delivers in one behaviour.
MaxWire == 3

(* --------------------------- identifiers ------------------------------- *)

Pages == {"P1", "P2"}

\* The page most operations of the model run on.
Self == "P1"

TargetID == [p \in Pages |-> IF p = "P1" THEN "T1" ELSE "T2"]

SessionID == [p \in Pages |-> IF p = "P1" THEN "S1" ELSE "S2"]

FrameID == [p \in Pages |-> IF p = "P1" THEN "F1" ELSE "F2"]

(* ---------------------------- envelopes -------------------------------- *)

\* Message: the session an event came on, its method name and its payload.
\* The payload is reduced to the fields the page controller reads: one id
\* (target, session, frame or request id), the result of a closed dialog,
\* and the resource type and url of a request.
Msg(m, s, i, r) ==
    [method |-> m, sid |-> s, id |-> i, result |-> r, rtype |-> "", url |-> ""]

EvTargetDestroyed == "Target.targetDestroyed"

EvDetachedFromTarget == "Target.detachedFromTarget"

EvDialogOpening == "Page.javascriptDialogOpening"

EvDialogClosed == "Page.javascriptDialogClosed"

EvFrameNavigated == "Page.frameNavigated"

\* Target events come on the browser session (empty session id).
Destroyed(t) == Msg(EvTargetDestroyed, "", t, FALSE)

Detached(s) == Msg(EvDetachedFromTarget, "", s, FALSE)

DialogOpening(s, i) == Msg(EvDialogOpening, s, i, FALSE)

DialogClosed(s, r) == Msg(EvDialogClosed, s, "", r)

FrameNavigated(s, f) == Msg(EvFrameNavigated, s, f, FALSE)

EvRequestWillBeSent == "Network.requestWillBeSent"

EvLoadingFinished == "Network.loadingFinished"

EvLoadingFailed == "Network.loadingFailed"

RequestWillBeSent(s, i, t, u) ==
    [method |-> EvRequestWillBeSent, sid |-> s, id |-> i, result |-> FALSE,
     rtype |-> t, url |-> u]

LoadingFinished(s, i) == Msg(EvLoadingFinished, s, i, FALSE)

LoadingFailed(s, i) == Msg(EvLoadingFailed, s, i, FALSE)

NoMsg == Msg("", "", "", FALSE)

\* The zero value of a decoded event (a Go struct literal T{}).
ZeroEvent == [id |-> "", result |-> FALSE, rtype |-> "", url |-> ""]

\* msg.Load(e): reports whether msg is an event of e's type and decodes the
\* payload into e.  Go passes e by value unless the caller passes &e, so
\* only a caller that passed a pointer sees the decoded fields; the
\* variable of a caller that passed the struct itself keeps its zero value.
Load(msg, method, byPointer) ==
    [ok |-> msg.method = method,
     val |-> IF msg.method = method /\ byPointer
             THEN [id |-> msg.id, result |-> msg.result,
                   rtype |-> msg.rtype, url |-> msg.url]
             ELSE ZeroEvent]

\* Envelopes of target life cycle, of dialogs and of frames.
TargetMsgs == {Destroyed("T1"), Destroyed("T2"), Detached("S1"), Detached("S2")}

DialogMsgs == {DialogClosed("S1", FALSE), DialogClosed("S1", TRUE),
               DialogClosed("S2", FALSE)}

FrameMsgs == {FrameNavigated("S1", "F1"), FrameNavigated("S1", "F2"),
              FrameNavigated("S2", "F1")}

(* ------------------------------ state ---------------------------------- *)

VARIABLES
    wire,       \* envelopes published on the browser's observable, in order
    cancelled,  \* per page: sessionCancel was called (p.ctx is done)
    disp,       \* per page: the goroutine of initEvents
    pageLog,    \* per page: messages published on p.event, in order
    ev,         \* Page.Event on Self: subscription and forwarding goroutine
    got,        \* messages the reader of Page.Event's channel received
    lock,       \* browser.targetsLock: the page whose Close holds it, or ""
    close,      \* per page: the call of Close
    cleaned,    \* per page: cleanupStates has run
    jsCtx,      \* the JS context handles: the value each jsCtxID pointer points at
    clone,      \* ElementFromObject has made a clone of Self with its own handle
    nav,        \* the call of Navigate
    rel,        \* the call of Reload (done: its deferred cancel has run)
    seen,       \* the events passed to the callback of Reload, in order
    idle,       \* the call of WaitRequestIdle and of the wait function it returns
    dom,        \* the string table of the document the browser shows
    stab,       \* the call of WaitDOMStable
    ws,         \* the call of WaitStable
    dlg,        \* the call of HandleDialog and of the functions it returns
    shot,       \* the call of Screenshot
    kb,         \* the keyboard of the page
    ms,         \* the mouse of the page: state, events sent, the last one
    clk,        \* the call of Mouse.Click
    ml,         \* the call of Mouse.MoveLinear
    ka,         \* a KeyActions of the page and the call of its Do (first, base: the
                \* list and the actions of the first Do; did: the keys Do pressed)
    kt,         \* the callers of Keyboard.Press and Release, step by step (holder:
                \* who holds the mutex; muts: the events in the order of the changes
                \* of the pressed set)
    ss,         \* the call of ScrollScreenshot
    pt          \* the callers of the mouse and of the touch device, step by step
                \* (holder: who holds the mutex of the mouse; left: the events a
                \* call has still to send; mods: the modifiers a caller has read;
                \* result: what the operation of the touch device returned)

evVars == <<ev, got>>

closeVars == <<lock, close, cleaned>>

navVars == <<jsCtx, clone, nav, rel, seen>>

waitVars == <<idle, dom, stab, ws>>

inVars == <<ms, clk, ml, ka, kt>>

opVars == <<dlg, shot, kb, inVars, ss, pt>>

coreVars == <<wire, cancelled, disp, pageLog, evVars, closeVars, navVars, waitVars>>

vars == <<wire, cancelled, disp, pageLog, ev, got, lock, close, cleaned,
          jsCtx, clone, nav, rel, seen, idle, dom, stab, ws, dlg, shot, kb,
          ms, clk, ml, ka, kt, ss, pt>>

\* The jsCtxID pointers: the one made with the page, which its context
\* clones share, and the one of the clone made by ElementFromObject.
Slots == {"root", "clone"}

\* The values of Self an operation can be called on.
Views == {"page", "objclone"}

\* p.jsCtxID of a view, and p.root.jsCtxID.
SlotOf(v) == IF v = "objclone" THEN "clone" ELSE "root"

RootSlot == "root"

Init ==
    /\ wire = <<>>
    /\ cancelled = [p \in Pages |-> FALSE]
    /\ disp = [p \in Pages |-> [pc |-> "run", pos |-> 0]]
    /\ pageLog = [p \in Pages |-> <<>>]
    /\ ev = [pc |-> "none", sub |-> 0, pos |-> 0, held |-> NoMsg]
    /\ got = <<>>
    /\ lock = ""
    /\ close = [p \in Pages |-> [pc |-> "idle", pos |-> 0, tries |-> 0, success |-> TRUE,
                                 result |-> "", last |-> NoMsg]]
    /\ cleaned = [p \in Pages |-> FALSE]
    /\ jsCtx = [s \in Slots |-> ""]
    /\ clone = FALSE
    /\ nav = [pc |-> "idle", on |-> "page", arg |-> "", url |-> "", stop |-> "",
              sent |-> "", text |-> "", result |-> "", err |-> ""]
    /\ rel = [pc |-> "idle", on |-> "page", sub |-> 0, called |-> 0, pos |-> 0,
              result |-> "", done |-> FALSE]
    /\ seen = <<>>
    /\ idle = [pc |-> "idle", excludes |-> {}, sub |-> 0, pos |-> 0, waitList |-> {}, job |-> 0,
               left |-> 0, quiet |-> 0,
               tmr |-> "stopped", bg |-> "none", done |-> FALSE]
    /\ dom = <<"a">>
    /\ stab = [pc |-> "idle", diff |-> 0, prev |-> <<>>, ticked |-> FALSE,
               result |-> "", last |-> <<>>, before |-> <<>>]
    /\ ws = [pc |-> "idle", load |-> "run", dom |-> "run", once |-> FALSE,
             err |-> "nil", result |-> ""]
    /\ dlg = [pc |-> "idle", domain |-> FALSE, was |-> FALSE, enable |-> "",
              sub |-> 0, pos |-> 0, wpc |-> "none", e |-> "",
              handled |-> 0, herr |-> "", restores |-> 0]
    /\ shot = [pc |-> "idle", full |-> FALSE, stored |-> "none", set |-> FALSE,
               oldView |-> "none", applied |-> FALSE, calls |-> <<>>, result |-> ""]
    /\ kb = [pressed |-> {}, log |-> <<>>, op |-> "", arg |-> "", pc |-> "idle",
             key |-> "", before |-> {}, alone |-> TRUE, result |-> ""]
    /\ ms = [pos |-> 0, buttons |-> <<>>, sent |-> 0,
             last |-> [type |-> "", button |-> "", buttons |-> 0, x |-> 0, mods |-> 0],
             op |-> "", arg |-> "", result |-> ""]
    /\ clk = [pc |-> "idle", button |-> "", result |-> ""]
    /\ ml = [pc |-> "idle", to |-> 0, steps |-> 0, from |-> 0, p |-> 0, step |-> 0,
             count |-> 0, moves |-> <<>>, result |-> ""]
    /\ ka = [pc |-> "idle", actions |-> <<>>, sched |-> <<>>, i |-> 0, runs |-> 0,
             did |-> {}, first |-> <<>>, base |-> <<>>, result |-> ""]
    /\ kt = [holder |-> "", pc |-> [c \in {"c1", "c2"} |-> "idle"],
             ev |-> [c \in {"c1", "c2"} |-> [type |-> "", key |-> "", mods |-> 0]],
             muts |-> <<>>]
    /\ ss = [pc |-> "idle", fixedTop |-> 0, fixedBottom |-> 0, viewpointHeight |-> 0,
             contentHeight |-> 0, scrollTop |-> 0, clips |-> <<>>, result |-> ""]
    /\ pt = [holder |-> "",
             pc |-> [c \in {"m1", "m2", "t1"} |-> "idle"],
             op |-> [c \in {"m1", "m2", "t1"} |-> ""],
             left |-> [c \in {"m1", "m2", "t1"} |-> 0],
             mods |-> [c \in {"m1", "m2", "t1"} |-> 0],
             result |-> ""]

(* --------------------------- the browser ------------------------------- *)

\* The transport delivers one more envelope; the browser publishes it.
Deliver(e) ==
    /\ Len(wire) < MaxWire
    /\ wire' = Append(wire, e)
    /\ UNCHANGED <<cancelled, disp, pageLog, evVars, closeVars, navVars, waitVars, opVars>>

(* ------------------------- Page.initEvents ----------------------------- *)

\* The condition of initEvents that ends the session.  detached is loaded
\* through a pointer, destroyed is passed by value.
EndsSession(p, msg) ==
    LET detached == Load(msg, EvDetachedFromTarget, TRUE)
        destroyed == Load(msg, EvTargetDestroyed, FALSE)
    IN  \/ detached.ok /\ detached.val.id = SessionID[p]
        \/ destroyed.ok /\ destroyed.val.id = TargetID[p]

\* One iteration of the loop of the goroutine started by initEvents.  The
\* goroutine subscribed at construction, so it sees the wire from the start.
Dispatch(p) ==
    /\ disp[p].pc = "run"
    /\ disp[p].pos < Len(wire)
    /\ LET msg == wire[disp[p].pos + 1]
       IN  IF EndsSession(p, msg)
           THEN /\ cancelled' = [cancelled EXCEPT ![p] = TRUE]
                /\ disp' = [disp EXCEPT ![p] = [pc |-> "done", pos |-> @.pos + 1]]
                /\ UNCHANGED pageLog
           ELSE /\ disp' = [disp EXCEPT ![p].pos = @ + 1]
                /\ pageLog' = [pageLog EXCEPT ![p] =
                                 IF msg.sid # SessionID[p] THEN @ ELSE Append(@, msg)]
                /\ UNCHANGED cancelled
    /\ UNCHANGED <<wire, evVars, closeVars, navVars, waitVars, opVars>>

(* ----------------------------- Page.Event ------------------------------ *)

\* Page.Event() with a subscription that replays the messages published
\* before it was taken.
PageEventReplay ==
    /\ ev.pc = "none"
    /\ ev' = [pc |-> "recv", sub |-> Len(pageLog[Self]), pos |-> 0, held |-> NoMsg]
    /\ UNCHANGED <<wire, cancelled, disp, pageLog, got, closeVars, navVars, waitVars, opVars>>

\* Page.Event(): subscribes to p.event before it returns, then starts the
\* forwarding goroutine.
PageEvent ==
    /\ ev.pc = "none"
    /\ ev' = [pc |-> "recv", sub |-> Len(pageLog[Self]),
              pos |-> Len(pageLog[Self]), held |-> NoMsg]
    /\ UNCHANGED <<wire, cancelled, disp, pageLog, got, closeVars, navVars, waitVars, opVars>>

\* The outer select of the goroutine, case msg := <-s.
ForwardRecv ==
    /\ ev.pc = "recv"
    /\ ev.pos < Len(pageLog[Self])
    /\ ev' = [ev EXCEPT !.pc = "send", !.pos = @ + 1,
                        !.held = pageLog[Self][ev.pos + 1]]
    /\ UNCHANGED <<wire, cancelled, disp, pageLog, got, closeVars, navVars, waitVars, opVars>>

\* The inner select, case dst <- msg: the reader of the channel takes it.
ForwardSend ==
    /\ ev.pc = "send"
    /\ got' = Append(got, ev.held)
    /\ ev' = [ev EXCEPT !.pc = "recv", !.held = NoMsg]
    /\ UNCHANGED <<wire, cancelled, disp, pageLog, closeVars, navVars, waitVars, opVars>>

\* A forwarding goroutine whose inner select has no case for p.ctx.Done():
\* it returns from the outer select only.
ForwardExitOuterOnly ==
    /\ ev.pc = "recv"
    /\ cancelled[Self]
    /\ ev' = [ev EXCEPT !.pc = "closed", !.held = NoMsg]
    /\ UNCHANGED <<wire, cancelled, disp, pageLog, got, closeVars, navVars, waitVars, opVars>>

\* Either select, case <-p.ctx.Done() (or s closed): return, close(dst).
\* A message the goroutine holds is dropped.
ForwardExit ==
    /\ ev.pc \in {"recv", "send"}
    /\ cancelled[Self]
    /\ ev' = [ev EXCEPT !.pc = "closed", !.held = NoMsg]
    /\ UNCHANGED <<wire, cancelled, disp, pageLog, got, closeVars, navVars, waitVars, opVars>>

(* --------------------------- transport call ---------------------------- *)

\* The outcomes of a CDP call made on page p: once the scope of the page is
\* cancelled the call fails with the cancellation error, otherwise the
\* browser answers with a result or with a remote error.
CallOutcomes(p) == IF cancelled[p] THEN {"cancelled"} ELSE {"ok", "error"}

(* ----------------------------- Page.Close ------------------------------ *)

\* Number of times one Close retries Page.close.
MaxCloseTries == 1

\* Close returning without the deferred Unlock.
CloseReturnKeepsLock(p, res, clean, last) ==
    /\ close' = [close EXCEPT ![p] = [pc |-> "ret", pos |-> 0, tries |-> 0,
                                      success |-> res # "PageCloseCanceled",
                                      result |-> res, last |-> last]]
    /\ cleaned' = [cleaned EXCEPT ![p] = @ \/ clean]
    /\ UNCHANGED lock

\* Close returns: the deferred cancel and Unlock run.  last is the message
\* the second loop stopped on (NoMsg when it did not stop on a message).
CloseReturn(p, res, clean, last) ==
    /\ close' = [close EXCEPT ![p] = [pc |-> "ret", pos |-> 0, tries |-> 0,
                                      success |-> res # "PageCloseCanceled",
                                      result |-> res, last |-> last]]
    /\ cleaned' = [cleaned EXCEPT ![p] = @ \/ clean]
    /\ lock' = ""

\* targetsLock.Lock(), success := true, and the subscription to the browser
\* events, all before the first Page.close call.
CloseBegin(p) ==
    /\ close[p].pc = "idle"
    /\ lock = ""
    /\ lock' = p
    /\ close' = [close EXCEPT ![p].pc = "call", ![p].pos = Len(wire)]
    /\ UNCHANGED <<wire, cancelled, disp, pageLog, evVars, cleaned, navVars, waitVars, opVars>>

\* A first loop that returns NotAttachedToActivePage like any other error.
CloseCallNoRetry(p, r) ==
    /\ close[p].pc = "call"
    /\ r \in CallOutcomes(p) \cup (IF cancelled[p] THEN {} ELSE {"notAttached"})
    /\ IF r # "ok"
       THEN CloseReturn(p, r, FALSE, NoMsg)
       ELSE /\ close' = [close EXCEPT ![p].pc = "loop", ![p].tries = 0]
            /\ UNCHANGED <<lock, cleaned>>
    /\ UNCHANGED <<wire, cancelled, disp, pageLog, evVars, navVars, waitVars, opVars>>

\* One iteration of the first loop: proto.PageClose{}.Call(p).
CloseCall(p, r) ==
    /\ close[p].pc = "call"
    /\ r \in CallOutcomes(p) \cup (IF cancelled[p] THEN {} ELSE {"notAttached"})
    /\ IF r = "notAttached"
       THEN /\ close[p].tries < MaxCloseTries
            /\ close' = [close EXCEPT ![p].tries = @ + 1]
            /\ UNCHANGED <<lock, cleaned>>
       ELSE IF r # "ok"
       THEN CloseReturn(p, r, FALSE, NoMsg)
       ELSE /\ close' = [close EXCEPT ![p].pc = "loop", ![p].tries = 0]
            /\ UNCHANGED <<lock, cleaned>>
    /\ UNCHANGED <<wire, cancelled, disp, pageLog, evVars, navVars, waitVars, opVars>>

\* The body of the second loop with stop = success in the dialog branch.
CloseOnMessageStopOnAccept(p, msg, success) ==
    LET destroyed == Load(msg, EvTargetDestroyed, TRUE)
        closed == Load(msg, EvDialogClosed, TRUE)
    IN  IF destroyed.ok
        THEN [success |-> success, stop |-> destroyed.val.id = TargetID[p]]
        ELSE IF msg.sid = SessionID[p] /\ closed.ok
        THEN [success |-> closed.val.result, stop |-> closed.val.result]
        ELSE [success |-> success, stop |-> FALSE]

\* The body of the second loop for one message: the new value of success
\* and whether the loop stops.
CloseOnMessage(p, msg, success) ==
    LET destroyed == Load(msg, EvTargetDestroyed, TRUE)
        closed == Load(msg, EvDialogClosed, TRUE)
    IN  IF destroyed.ok
        THEN [success |-> success, stop |-> destroyed.val.id = TargetID[p]]
        ELSE IF msg.sid = SessionID[p] /\ closed.ok
        THEN [success |-> closed.val.result, stop |-> ~closed.val.result]
        ELSE [success |-> success, stop |-> FALSE]

\* What follows the second loop.
CloseFinish(p, success, last) ==
    IF success THEN CloseReturn(p, "nil", TRUE, last)
    ELSE CloseReturn(p, "PageCloseCanceled", FALSE, last)

\* for msg := range messages: the next message arrives.
CloseLoopMsg(p) ==
    /\ close[p].pc = "loop"
    /\ close[p].pos < Len(wire)
    /\ LET msg == wire[close[p].pos + 1]
           r == CloseOnMessage(p, msg, close[p].success)
       IN  IF r.stop
           THEN CloseFinish(p, r.success, msg)
           ELSE /\ close' = [close EXCEPT ![p].pos = @ + 1, ![p].success = r.success]
                /\ UNCHANGED <<lock, cleaned>>
    /\ UNCHANGED <<wire, cancelled, disp, pageLog, evVars, navVars, waitVars, opVars>>

\* for msg := range messages: the channel is closed, which happens once the
\* context derived from p.ctx is done.
CloseLoopEnd(p) ==
    /\ close[p].pc = "loop"
    /\ cancelled[p]
    /\ CloseFinish(p, close[p].success, NoMsg)
    /\ UNCHANGED <<wire, cancelled, disp, pageLog, evVars, navVars, waitVars, opVars>>

(* ------------------------- JS context handle --------------------------- *)

\* p.unsetJSCtxID() on the handle slot: *p.jsCtxID = "".
UnsetJSCtxID(slot) == [jsCtx EXCEPT ![slot] = ""]

\* p.getJSCtxID() on the handle slot: an unset handle is initialised with the
\* id of the window object of the frame.
GetJSCtxID(slot) == [jsCtx EXCEPT ![slot] = IF @ = "" THEN "c1" ELSE @]

\* The handle after p.Evaluate on view v with outcome r: a call on a
\* cancelled scope fails before the handle is touched; otherwise the handle
\* is initialised, also when the evaluated function then fails.
AfterEvaluate(v, r) == IF r = "cancelled" THEN jsCtx ELSE GetJSCtxID(SlotOf(v))

\* An evaluation by another caller of the page.
Evaluate(v, r) ==
    /\ v = "objclone" => clone
    /\ r \in CallOutcomes(Self)
    /\ jsCtx' = AfterEvaluate(v, r)
    /\ jsCtx' # jsCtx
    /\ UNCHANGED <<wire, cancelled, disp, pageLog, evVars, closeVars, clone, nav, rel, seen, waitVars, opVars>>

\* ElementFromObject for an object of execution context id: when id is not
\* the current context of the page, the element is bound to a clone of the
\* page whose jsCtxID points at a variable of its own holding id.
ElementFromObject(id, r) ==
    /\ ~clone
    /\ r \in CallOutcomes(Self)
    /\ IF r # "ok"
       THEN UNCHANGED <<jsCtx, clone>>
       ELSE LET ctx == GetJSCtxID(RootSlot)
            IN  IF id # ctx[RootSlot]
                THEN /\ clone' = TRUE
                     /\ jsCtx' = [ctx EXCEPT !["clone"] = id]
                ELSE /\ jsCtx' = ctx
                     /\ UNCHANGED clone
    /\ UNCHANGED <<wire, cancelled, disp, pageLog, evVars, closeVars, nav, rel, seen, waitVars, opVars>>

(* ---------------------------- Page.Navigate ---------------------------- *)

\* Navigate passing the url on as given.
NavigateURLAsGiven(url) == url

\* The url Navigate asks the browser for.
NavigateURL(url) == IF url = "" THEN "about:blank" ELSE url

\* Navigate(url) is called on view v.
NavigateBegin(v, url) ==
    /\ nav.pc = "idle"
    /\ v = "objclone" => clone
    /\ nav' = [nav EXCEPT !.pc = "stop", !.on = v, !.arg = url, !.url = NavigateURL(url)]
    /\ UNCHANGED <<wire, cancelled, disp, pageLog, evVars, closeVars, jsCtx, clone, rel, seen, waitVars, opVars>>

\* _ = p.StopLoading(): whatever the outcome r, Navigate goes on.
NavigateStop(r) ==
    /\ nav.pc = "stop"
    /\ r \in CallOutcomes(Self)
    /\ nav' = [nav EXCEPT !.pc = "call", !.stop = r]
    /\ UNCHANGED <<wire, cancelled, disp, pageLog, evVars, closeVars, jsCtx, clone, rel, seen, waitVars, opVars>>

\* The handle slot Navigate clears: that of p.root.
NavigateSlot(v) == RootSlot

\* What Navigate does with the answer to Page.navigate: the error it
\* returns, the text the error carries and whether the handle is cleared.
\* r is the outcome of the call, text the ErrorText of the response.
NavigateResult(r, text) ==
    IF r # "ok" THEN [result |-> r, err |-> "", unset |-> FALSE]
    ELSE IF text # "" THEN [result |-> "NavigationError", err |-> text, unset |-> FALSE]
    ELSE [result |-> "nil", err |-> "", unset |-> TRUE]

\* proto.PageNavigate{URL: url}.Call(p) with outcome r and, when the call
\* went through, the error text of the response; then the return.
NavigateCall(r, text) ==
    /\ nav.pc = "call"
    /\ r \in CallOutcomes(Self)
    /\ r # "ok" => text = ""
    /\ LET res == NavigateResult(r, text)
       IN  /\ nav' = [nav EXCEPT !.pc = "ret", !.sent = nav.url, !.text = text,
                                 !.result = res.result, !.err = res.err]
           /\ jsCtx' = IF res.unset THEN UnsetJSCtxID(NavigateSlot(nav.on)) ELSE jsCtx
    /\ UNCHANGED <<wire, cancelled, disp, pageLog, evVars, closeVars, clone, rel, seen, waitVars, opVars>>

(* ----------------------------- Page.Reload ----------------------------- *)

\* A cancel that also ends the scope of the page the clone was made from.
CancelChildEndsParent == [cancelled EXCEPT ![Self] = TRUE]

\* cancel() of p.WithCancel(), as far as the page is concerned: the context
\* of the clone is done; it is a child of the context of the page, which
\* stays as it is.
CancelChild == cancelled

\* The callback of Reload: func(e *proto.PageFrameNavigated) bool.
ReloadCallback(e) == e.id = FrameID[Self]

\* Reload is called on view v: p.WithCancel(), then p.EachEvent, which
\* subscribes to the browser events before it returns the wait function.
ReloadBegin(v) ==
    /\ rel.pc = "idle"
    /\ v = "objclone" => clone
    /\ rel' = [rel EXCEPT !.pc = "eval", !.on = v, !.sub = Len(wire), !.pos = Len(wire)]
    /\ UNCHANGED <<wire, cancelled, disp, pageLog, evVars, closeVars, jsCtx, clone, nav, seen, waitVars, opVars>>

\* Reload calling p.EachEvent only after the evaluation returned.
ReloadEvaluateThenSubscribe(r) ==
    /\ rel.pc = "eval"
    /\ r \in CallOutcomes(Self)
    /\ jsCtx' = AfterEvaluate(rel.on, r)
    /\ rel' = IF r = "ok"
              THEN [rel EXCEPT !.pc = "wait", !.called = Len(wire), !.pos = Len(wire)]
              ELSE [rel EXCEPT !.pc = "ret", !.result = r, !.called = Len(wire),
                               !.done = TRUE]
    /\ cancelled' = IF r = "ok" THEN cancelled ELSE CancelChild
    /\ UNCHANGED <<wire, disp, pageLog, evVars, closeVars, clone, nav, seen, waitVars, opVars>>

\* p.Evaluate(`() => location.reload()`) with outcome r; on success wait()
\* is called next.
ReloadEvaluate(r) ==
    /\ rel.pc = "eval"
    /\ r \in CallOutcomes(Self)
    /\ jsCtx' = AfterEvaluate(rel.on, r)
    /\ rel' = IF r = "ok" THEN [rel EXCEPT !.pc = "wait", !.called = Len(wire)]
              ELSE [rel EXCEPT !.pc = "ret", !.result = r, !.called = Len(wire),
                               !.done = TRUE]
    /\ cancelled' = IF r = "ok" THEN cancelled ELSE CancelChild
    /\ UNCHANGED <<wire, disp, pageLog, evVars, closeVars, clone, nav, seen, waitVars, opVars>>

\* Reload returning nil without p.unsetJSCtxID().
ReloadReturnKeepsCtx(n) ==
    /\ UNCHANGED jsCtx
    /\ rel' = [rel EXCEPT !.pc = "ret", !.result = "nil", !.pos = @ + n, !.done = TRUE]
    /\ cancelled' = CancelChild

\* wait() has returned, having taken n more messages: p.unsetJSCtxID() on
\* the handle of the page Reload was called on, return nil, and the
\* deferred cancel().
ReloadReturn(n) ==
    /\ jsCtx' = UnsetJSCtxID(SlotOf(rel.on))
    /\ rel' = [rel EXCEPT !.pc = "ret", !.result = "nil", !.pos = @ + n, !.done = TRUE]
    /\ cancelled' = CancelChild

\* wait(): the next message of the subscription.  Messages of other
\* sessions and of other types are skipped; a frameNavigated event is
\* passed to the callback, and the wait ends when the callback returns true.
ReloadWaitMsg ==
    /\ rel.pc = "wait"
    /\ rel.pos < Len(wire)
    /\ LET msg == wire[rel.pos + 1]
           e == Load(msg, EvFrameNavigated, TRUE)
       IN  IF msg.sid = SessionID[Self] /\ e.ok
           THEN /\ seen' = Append(seen, msg)
                /\ IF ReloadCallback(e.val)
                   THEN ReloadReturn(1)
                   ELSE /\ rel' = [rel EXCEPT !.pos = @ + 1]
                        /\ UNCHANGED <<jsCtx, cancelled>>
           ELSE /\ rel' = [rel EXCEPT !.pos = @ + 1]
                /\ UNCHANGED <<jsCtx, seen, cancelled>>
    /\ UNCHANGED <<wire, disp, pageLog, evVars, closeVars, clone, nav, waitVars, opVars>>

\* wait(): the subscription ended, because the scope of the page was
\* cancelled; wait returns as it does after the callback said stop.
ReloadWaitEnd ==
    /\ rel.pc = "wait"
    /\ cancelled[Self]
    /\ ReloadReturn(0)
    /\ UNCHANGED <<wire, disp, pageLog, evVars, closeVars, clone, nav, seen, waitVars, opVars>>

(* -------------------------- WaitRequestIdle ---------------------------- *)

\* The resource types WaitRequestIdle leaves out when excludeTypes is nil.
DefaultExcludeTypes == {"WebSocket", "EventSource", "Media", "Image", "Font"}

\* The urls of the requests a page makes: two the excludes of a call never
\* match and one they can.
URLs == {"/a", "/b", "/x"}

\* genRegMatcher(includes, excludes) for includes = [""] (what a call
\* without includes gets): a url matches unless one of the excludes matches
\* it.  excludes is given as the set of the urls its patterns match, empty
\* for a call without excludes.
MatchURL(excludes, url) == url \notin excludes

\* The duration d of WaitRequestIdle, WaitDOMStable and WaitStable, in ticks.
IdleD == 2

\* idleCounter.Add(): one more job; the timer is stopped unless it already
\* fired.
IdleCounterAdd(c) ==
    [c EXCEPT !.job = @ + 1, !.tmr = IF @ = "armed" THEN "stopped" ELSE @,
              !.left = 0]

\* idleCounter.Done(): one job less; the timer is armed when none is left.
IdleCounterDone(c) ==
    [c EXCEPT !.job = @ - 1,
              !.tmr = IF c.job = 1 /\ @ = "stopped" THEN "armed" ELSE @,
              !.left = IF c.job = 1 /\ c.tmr # "fired" THEN IdleD ELSE @]

\* The callback for NetworkRequestWillBeSent without the test for a request
\* id that is already in waitList.
IdleOnSentNoDedup(c, sent) ==
    IF sent.rtype \in DefaultExcludeTypes THEN c
    ELSE IF MatchURL(c.excludes, sent.url)
    THEN IdleCounterAdd([c EXCEPT !.waitList = @ \cup {sent.id}, !.quiet = 0])
    ELSE c

\* The callback for NetworkRequestWillBeSent.
IdleOnSent(c, sent) ==
    IF sent.rtype \in DefaultExcludeTypes THEN c
    ELSE IF MatchURL(c.excludes, sent.url) /\ sent.id \notin c.waitList
    THEN IdleCounterAdd([c EXCEPT !.waitList = @ \cup {sent.id}, !.quiet = 0])
    ELSE c

\* A checkDone that does not look the id up in waitList before it deletes
\* it and calls idleCounter.Done().
IdleCheckDoneAnyId(c, id) ==
    IdleCounterDone([c EXCEPT !.waitList = @ \ {id}])

\* checkDone, the callback for NetworkLoadingFinished and NetworkLoadingFailed.
IdleCheckDone(c, id) ==
    IF id \in c.waitList
    THEN IdleCounterDone([c EXCEPT !.waitList = @ \ {id}])
    ELSE c

\* WaitRequestIdle(d, nil, nil, nil): p.WithCancel(), an empty waitList, a
\* new idle counter, and the subscription of p.EachEvent.
IdleBegin ==
    /\ idle.pc = "idle"
    /\ idle' = [idle EXCEPT !.pc = "ready", !.sub = Len(wire), !.pos = Len(wire)]
    /\ UNCHANGED <<wire, cancelled, disp, pageLog, evVars, closeVars, navVars, dom, stab, ws, opVars>>

\* WaitRequestIdle(d, nil, excludes, nil): as IdleBegin, with a matcher
\* made from the excludes of the call.
IdleBeginExcludes(excludes) ==
    /\ idle.pc = "idle"
    /\ idle' = [idle EXCEPT !.pc = "ready", !.excludes = excludes,
                            !.sub = Len(wire), !.pos = Len(wire)]
    /\ UNCHANGED <<wire, cancelled, disp, pageLog, evVars, closeVars, navVars, dom, stab, ws, opVars>>

\* The returned function is called: it starts the goroutine that waits for
\* the idle counter and then enters wait().
IdleWaitCall ==
    /\ idle.pc = "ready"
    /\ idle' = [idle EXCEPT !.pc = "wait", !.bg = "start"]
    /\ UNCHANGED <<wire, cancelled, disp, pageLog, evVars, closeVars, navVars, dom, stab, ws, opVars>>

\* idleCounter.Wait(p.ctx), first half: the timer is armed when no job is
\* counted.
IdleCounterWait ==
    /\ idle.bg = "start"
    /\ idle' = [idle EXCEPT !.bg = "select",
                            !.tmr = IF idle.job = 0 /\ @ = "stopped" THEN "armed" ELSE @,
                            !.left = IF idle.job = 0 /\ idle.tmr # "fired" THEN IdleD ELSE @]
    /\ UNCHANGED <<wire, cancelled, disp, pageLog, evVars, closeVars, navVars, dom, stab, ws, opVars>>

\* One tick of time passes while the wait function exists: an armed timer
\* has one tick less to run and fires when none is left; quiet counts, up
\* to d, the ticks since waitList was last not empty.
IdleTimerFire ==
    /\ idle.pc \in {"ready", "wait"}
    /\ idle.tmr = "armed" \/ (idle.waitList = {} /\ idle.quiet < IdleD)
    /\ idle' = [idle EXCEPT
                  !.left = IF idle.tmr = "armed" THEN @ - 1 ELSE @,
                  !.tmr = IF @ = "armed" /\ idle.left = 1 THEN "fired" ELSE @,
                  !.quiet = IF idle.waitList # {} THEN 0
                            ELSE IF @ < IdleD THEN @ + 1 ELSE @]
    /\ UNCHANGED <<wire, cancelled, disp, pageLog, evVars, closeVars, navVars, dom, stab, ws, opVars>>

\* idleCounter.Wait(p.ctx), second half: the select returns on the timer or
\* on the context, and the goroutine calls cancel().
IdleCancel ==
    /\ idle.bg = "select"
    /\ idle.tmr = "fired" \/ idle.done \/ cancelled[Self]
    /\ idle' = [idle EXCEPT !.bg = "done", !.done = TRUE]
    /\ cancelled' = CancelChild
    /\ UNCHANGED <<wire, disp, pageLog, evVars, closeVars, navVars, dom, stab, ws, opVars>>

\* wait(): the next message of the subscription goes to the callback of its
\* type; no callback returns a value, so no message ends the wait.
IdleWaitMsg ==
    /\ idle.pc = "wait"
    /\ idle.pos < Len(wire)
    /\ LET msg == wire[idle.pos + 1]
           sent == Load(msg, EvRequestWillBeSent, TRUE)
           finished == Load(msg, EvLoadingFinished, TRUE)
           failed == Load(msg, EvLoadingFailed, TRUE)
           c == [idle EXCEPT !.pos = @ + 1]
       IN  idle' = IF msg.sid # SessionID[Self] THEN c
                   ELSE IF sent.ok THEN IdleOnSent(c, sent.val)
                   ELSE IF finished.ok THEN IdleCheckDone(c, finished.val.id)
                   ELSE IF failed.ok THEN IdleCheckDone(c, failed.val.id)
                   ELSE c
    /\ UNCHANGED <<wire, cancelled, disp, pageLog, evVars, closeVars, navVars, dom, stab, ws, opVars>>

\* wait(): the subscription ended, because the context of the clone made by
\* WithCancel is done: cancelled by the goroutine, or with the page.
IdleWaitEnd ==
    /\ idle.pc = "wait"
    /\ idle.done \/ cancelled[Self]
    /\ idle' = [idle EXCEPT !.pc = "ret"]
    /\ UNCHANGED <<wire, cancelled, disp, pageLog, evVars, closeVars, navVars, dom, stab, ws, opVars>>

(* --------------------------- WaitDOMStable ----------------------------- *)

\* String tables the document can have.
DomValues == {<<>>, <<"a">>, <<"a", "b">>, <<"c", "a">>}

\* The page changes its document.
DomChange(d) ==
    /\ d \in DomValues
    /\ d # dom
    /\ dom' = d
    /\ UNCHANGED <<wire, cancelled, disp, pageLog, evVars, closeVars, navVars, idle, stab, ws, opVars>>

\* The length of a longest common subsequence of xs and ys.
RECURSIVE LCSLen(_, _)
LCSLen(xs, ys) ==
    IF xs = <<>> \/ ys = <<>> THEN 0
    ELSE IF Head(xs) = Head(ys) THEN 1 + LCSLen(Tail(xs), Tail(ys))
    ELSE LET a == LCSLen(Tail(xs), ys)
             b == LCSLen(xs, Tail(ys))
         IN  IF a >= b THEN a ELSE b

\* df <= diff for df = 1 - len(lcs)/len(ys), with diff in percent.  For
\* an empty ys the quotient is 0/0, not a number, and the comparison fails.
DomStable(xs, ys, diff) ==
    /\ Len(ys) > 0
    /\ (Len(ys) - LCSLen(xs, ys)) * 100 <= diff * Len(ys)

\* WaitDOMStable(d, diff) is called: the first CaptureDOMSnapshot, with
\* outcome r, and the ticker.
StableBegin(diff, r) ==
    /\ stab.pc = "idle"
    /\ r \in CallOutcomes(Self)
    /\ stab' = IF r = "ok"
               THEN [stab EXCEPT !.pc = "loop", !.diff = diff, !.prev = dom,
                                 !.last = dom]
               ELSE [stab EXCEPT !.pc = "ret", !.diff = diff, !.result = r]
    /\ UNCHANGED <<wire, cancelled, disp, pageLog, evVars, closeVars, navVars, idle, dom, ws, opVars>>

\* The snapshots WaitDOMStable has taken: last is the latest one and before
\* the one taken before it.
StableCaptured(c) == [c EXCEPT !.before = c.last, !.last = dom, !.ticked = TRUE]

\* A WaitDOMStable that keeps comparing with its first snapshot.
StableTickKeepsFirst(r) ==
    /\ stab.pc = "loop"
    /\ r \in CallOutcomes(Self)
    /\ stab' = IF r # "ok"
               THEN [stab EXCEPT !.pc = "ret", !.result = r, !.ticked = TRUE]
               ELSE IF DomStable(stab.prev, dom, stab.diff)
               THEN [StableCaptured(stab) EXCEPT !.pc = "ret", !.result = "nil"]
               ELSE StableCaptured(stab)
    /\ UNCHANGED <<wire, cancelled, disp, pageLog, evVars, closeVars, navVars, idle, dom, ws, opVars>>

\* The select takes case <-t.C after d: the next snapshot, with outcome r,
\* is compared with the previous one and replaces it when they differ by
\* more than diff.
StableTick(r) ==
    /\ stab.pc = "loop"
    /\ r \in CallOutcomes(Self)
    /\ stab' = IF r # "ok"
               THEN [stab EXCEPT !.pc = "ret", !.result = r, !.ticked = TRUE]
               ELSE IF DomStable(stab.prev, dom, stab.diff)
               THEN [StableCaptured(stab) EXCEPT !.pc = "ret", !.result = "nil"]
               ELSE [StableCaptured(stab) EXCEPT !.prev = dom]
    /\ UNCHANGED <<wire, cancelled, disp, pageLog, evVars, closeVars, navVars, idle, dom, ws, opVars>>

\* A WaitDOMStable whose select returns nil on case <-p.ctx.Done().
StableCancelReturnsNil ==
    /\ stab.pc = "loop"
    /\ cancelled[Self]
    /\ stab' = [stab EXCEPT !.pc = "ret", !.result = "nil"]
    /\ UNCHANGED <<wire, cancelled, disp, pageLog, evVars, closeVars, navVars, idle, dom, ws, opVars>>

\* The select takes case <-p.ctx.Done(): return p.ctx.Err().
StableCancel ==
    /\ stab.pc = "loop"
    /\ cancelled[Self]
    /\ stab' = [stab EXCEPT !.pc = "ret", !.result = "cancelled"]
    /\ UNCHANGED <<wire, cancelled, disp, pageLog, evVars, closeVars, navVars, idle, dom, ws, opVars>>

(* ----------------------------- WaitStable ------------------------------ *)

\* setErr.Do(func() { err = e }): only the first call assigns.
SetErr(w, e) == IF w.once THEN w ELSE [w EXCEPT !.once = TRUE, !.err = e]

\* WaitStable(d) is called: utils.All starts the three tasks.
WaitStableBegin ==
    /\ ws.pc = "idle"
    /\ ws' = [ws EXCEPT !.pc = "run"]
    /\ UNCHANGED <<wire, cancelled, disp, pageLog, evVars, closeVars, navVars, idle, dom, stab, opVars>>

\* The first task: p.WaitLoad(), an evaluation with outcome r, then setErr.
WaitStableLoad(r) ==
    /\ ws.pc = "run"
    /\ ws.load = "run"
    /\ r \in CallOutcomes(Self)
    /\ jsCtx' = AfterEvaluate("page", r)
    /\ LET e == IF r = "ok" THEN "nil" ELSE r
       IN  ws' = SetErr([ws EXCEPT !.load = e], e)
    /\ UNCHANGED <<wire, cancelled, disp, pageLog, evVars, closeVars, clone, nav, rel, seen,
                   idle, dom, stab, opVars>>

\* The third task: p.WaitDOMStable(d, 0) has returned, then setErr.
WaitStableDOM ==
    /\ ws.pc = "run"
    /\ ws.dom = "run"
    /\ stab.pc = "ret"
    /\ ws' = SetErr([ws EXCEPT !.dom = stab.result], stab.result)
    /\ UNCHANGED <<wire, cancelled, disp, pageLog, evVars, closeVars, navVars, idle, dom, stab, opVars>>

\* The function utils.All returned has seen the three tasks end, the second
\* being the wait of WaitRequestIdle: return err.
WaitStableReturn ==
    /\ ws.pc = "run"
    /\ ws.load # "run"
    /\ idle.pc = "ret"
    /\ ws.dom # "run"
    /\ ws' = [ws EXCEPT !.pc = "ret", !.result = ws.err]
    /\ UNCHANGED <<wire, cancelled, disp, pageLog, evVars, closeVars, navVars, idle, dom, stab, opVars>>

(* ---------------------------- HandleDialog ----------------------------- *)

\* How often the handle function of one HandleDialog is called.
MaxHandles == 2

\* Another user of the page has enabled the Page domain.
PageEnable ==
    /\ dlg.pc = "idle"
    /\ ~dlg.domain
    /\ dlg' = [dlg EXCEPT !.domain = TRUE]
    /\ UNCHANGED <<coreVars, shot, kb, inVars, ss, pt>>

\* HandleDialog, first half: p.EnableDomain(&proto.PageEnable{}) sends
\* Page.enable, with outcome r, unless the domain is enabled already, and
\* returns the function that puts the domain back as it was.
HandleDialogEnable(r) ==
    /\ dlg.pc = "idle"
    /\ IF dlg.domain THEN r = "already" ELSE r \in CallOutcomes(Self)
    /\ dlg' = [dlg EXCEPT !.pc = "enabled", !.was = dlg.domain, !.enable = r,
                          !.domain = dlg.domain \/ r = "ok"]
    /\ UNCHANGED <<coreVars, shot, kb, inVars, ss, pt>>

\* HandleDialog, second half: p.WaitEvent(&e) subscribes, and the two
\* functions are returned.
HandleDialogSubscribe ==
    /\ dlg.pc = "enabled"
    /\ dlg' = [dlg EXCEPT !.pc = "ready", !.sub = Len(wire), !.pos = Len(wire)]
    /\ UNCHANGED <<coreVars, shot, kb, inVars, ss, pt>>

\* The wait function is called.
DialogWaitCall ==
    /\ dlg.pc = "ready"
    /\ dlg.wpc = "none"
    /\ dlg' = [dlg EXCEPT !.wpc = "wait"]
    /\ UNCHANGED <<coreVars, shot, kb, inVars, ss, pt>>

\* w(): the next message of the subscription; the first
\* javascriptDialogOpening of the session is loaded into e and ends the wait.
DialogWaitMsg ==
    /\ dlg.wpc = "wait"
    /\ dlg.pos < Len(wire)
    /\ LET msg == wire[dlg.pos + 1]
           opening == Load(msg, EvDialogOpening, TRUE)
       IN  dlg' = IF msg.sid = SessionID[Self] /\ opening.ok
                  THEN [dlg EXCEPT !.pos = @ + 1, !.wpc = "ret", !.e = opening.val.id]
                  ELSE [dlg EXCEPT !.pos = @ + 1]
    /\ UNCHANGED <<coreVars, shot, kb, inVars, ss, pt>>

\* w(): the subscription ended with the scope of the page.
DialogWaitEnd ==
    /\ dlg.wpc = "wait"
    /\ cancelled[Self]
    /\ dlg' = [dlg EXCEPT !.wpc = "ret"]
    /\ UNCHANGED <<coreVars, shot, kb, inVars, ss, pt>>

\* A handle function that restores only after a successful call.
DialogHandleRestoreOnSuccess(r) ==
    /\ dlg.pc = "ready"
    /\ dlg.handled < MaxHandles
    /\ r \in CallOutcomes(Self)
    /\ dlg' = IF r = "ok"
              THEN [dlg EXCEPT !.handled = @ + 1, !.herr = r, !.restores = @ + 1,
                               !.domain = dlg.was]
              ELSE [dlg EXCEPT !.handled = @ + 1, !.herr = r]
    /\ UNCHANGED <<coreVars, shot, kb, inVars, ss, pt>>

\* The handle function is called: h.Call(p) with outcome r, then the
\* deferred restore().
DialogHandle(r) ==
    /\ dlg.pc = "ready"
    /\ dlg.handled < MaxHandles
    /\ r \in CallOutcomes(Self)
    /\ dlg' = [dlg EXCEPT !.handled = @ + 1, !.herr = r, !.restores = @ + 1,
                          !.domain = dlg.was]
    /\ UNCHANGED <<coreVars, shot, kb, inVars, ss, pt>>

(* ----------------------------- Screenshot ------------------------------ *)

\* The user of the page has set a device-metrics override with SetViewport,
\* which the browser object keeps as state of the session.
SetViewport ==
    /\ shot.pc = "idle"
    /\ shot.stored = "none"
    /\ shot' = [shot EXCEPT !.stored = "old"]
    /\ UNCHANGED <<coreVars, dlg, kb, inVars, ss, pt>>

\* Screenshot(fullPage, req) is called.
ScreenshotBegin(fullPage) ==
    /\ shot.pc = "idle"
    /\ shot' = [shot EXCEPT !.pc = IF fullPage THEN "metrics" ELSE "capture",
                            !.full = fullPage]
    /\ UNCHANGED <<coreVars, dlg, kb, inVars, ss, pt>>

\* proto.PageGetLayoutMetrics{}.Call(p) with outcome r and a content size
\* that is present or not, then p.LoadState(&oldView).
ScreenshotMetrics(r, hasSize) ==
    /\ shot.pc = "metrics"
    /\ r \in CallOutcomes(Self)
    /\ shot' = IF r # "ok" THEN [shot EXCEPT !.pc = "ret", !.result = r]
               ELSE IF ~hasSize THEN [shot EXCEPT !.pc = "ret", !.result = "noSize"]
               ELSE [shot EXCEPT !.pc = "view", !.set = shot.stored # "none",
                                 !.oldView = shot.stored]
    /\ UNCHANGED <<coreVars, dlg, kb, inVars, ss, pt>>

\* p.SetViewport(&view) with outcome r: on success the override of the
\* content size is in force and the restore is deferred.
ScreenshotSetViewport(r) ==
    /\ shot.pc = "view"
    /\ r \in CallOutcomes(Self)
    /\ shot' = IF r = "ok"
               THEN [shot EXCEPT !.pc = "capture", !.stored = "tmp", !.applied = TRUE,
                                 !.calls = Append(@, "set:tmp")]
               ELSE [shot EXCEPT !.pc = "ret", !.result = r,
                                 !.calls = Append(@, "set:tmp")]
    /\ UNCHANGED <<coreVars, dlg, kb, inVars, ss, pt>>

\* A Screenshot that returns a capture error before it restores.
ScreenshotCaptureErrorSkipsRestore(r) ==
    /\ shot.pc = "capture"
    /\ r \in CallOutcomes(Self)
    /\ shot' = [shot EXCEPT !.pc = IF shot.applied /\ r = "ok" THEN "restore" ELSE "ret",
                            !.result = IF r = "ok" THEN "data" ELSE r]
    /\ UNCHANGED <<coreVars, dlg, kb, inVars, ss, pt>>

\* req.Call(p) with outcome r; the deferred function runs next when it was
\* registered.
ScreenshotCapture(r) ==
    /\ shot.pc = "capture"
    /\ r \in CallOutcomes(Self)
    /\ shot' = [shot EXCEPT !.pc = IF shot.applied THEN "restore" ELSE "ret",
                            !.result = IF r = "ok" THEN "data" ELSE r]
    /\ UNCHANGED <<coreVars, dlg, kb, inVars, ss, pt>>

\* The deferred function: EmulationClearDeviceMetricsOverride when no
\* override was stored, p.SetViewport(&oldView) otherwise; the outcome r of
\* the call is dropped.
ScreenshotRestore(r) ==
    /\ shot.pc = "restore"
    /\ r \in CallOutcomes(Self)
    /\ shot' = IF ~shot.set
               THEN [shot EXCEPT !.pc = "ret", !.calls = Append(@, "clear"),
                                 !.stored = IF r = "ok" THEN "none" ELSE @]
               ELSE [shot EXCEPT !.pc = "ret", !.calls = Append(@, "set:old"),
                                 !.stored = IF r = "ok" THEN shot.oldView ELSE @]
    /\ UNCHANGED <<coreVars, dlg, kb, inVars, ss, pt>>

(* ------------------------------ Keyboard ------------------------------- *)

\* How many key events the keyboard sends in one behaviour.
MaxKeyEvents == 4

\* The keys pressed and released: two Shift keys, a Control key and a
\* letter.
Keys == {"ShiftLeft", "ShiftRight", "ControlLeft", "KeyA"}

\* key.Modifier(): the bit of a modifier key (Alt 1, Control 2, Meta 4,
\* Shift 8), 0 for any other key.
Modifier(key) ==
    CASE key \in {"ShiftLeft", "ShiftRight"} -> 8
      [] key = "ControlLeft" -> 2
      [] OTHER -> 0

\* a | b on the integers a key event carries.
RECURSIVE BitOr(_, _)
BitOr(a, b) ==
    IF a = 0 THEN b
    ELSE IF b = 0 THEN a
    ELSE (IF a % 2 = 1 \/ b % 2 = 1 THEN 1 ELSE 0) + 2 * BitOr(a \div 2, b \div 2)

\* A modifiers() that adds the bits up.
RECURSIVE KeyboardModifiersSum(_)
KeyboardModifiersSum(pressed) ==
    IF pressed = {} THEN 0
    ELSE LET key == CHOOSE k \in pressed : TRUE
         IN  Modifier(key) + KeyboardModifiersSum(pressed \ {key})

\* k.modifiers(): ms |= key.Modifier() over the pressed keys, from ms = 0.
RECURSIVE KeyboardModifiers(_)
KeyboardModifiers(pressed) ==
    IF pressed = {} THEN 0
    ELSE LET key == CHOOSE k \in pressed : TRUE
         IN  BitOr(Modifier(key), KeyboardModifiers(pressed \ {key}))

\* key.Encode(type, modifiers): the key event sent to the browser.
KeyEvent(type, key, modifiers) == [type |-> type, key |-> key, mods |-> modifiers]

\* The keyboard b after Press(key): the key is added, then keyDown is sent
\* with the modifiers of the new set.  A failed call takes nothing back.
KeyboardPress(b, key) ==
    LET pressed == b.pressed \cup {key}
    IN  [b EXCEPT !.pressed = pressed,
                  !.log = Append(@, KeyEvent("keyDown", key, KeyboardModifiers(pressed)))]

\* A Release that encodes the modifiers before it deletes the key.
KeyboardReleasePreMask(b, key) ==
    IF key \notin b.pressed THEN b
    ELSE [b EXCEPT !.pressed = @ \ {key},
                   !.log = Append(@, KeyEvent("keyUp", key, KeyboardModifiers(b.pressed)))]

\* The keyboard b after Release(key): nothing when the key is not pressed;
\* otherwise the key is deleted, then keyUp is sent with the modifiers of the
\* new set.
KeyboardRelease(b, key) ==
    IF key \notin b.pressed THEN b
    ELSE LET pressed == b.pressed \ {key}
         IN  [b EXCEPT !.pressed = pressed,
                       !.log = Append(@, KeyEvent("keyUp", key, KeyboardModifiers(pressed)))]

\* A caller of the page calls Keyboard.Press(key).
Press(key) ==
    /\ Len(kb.log) < MaxKeyEvents
    /\ kb' = [KeyboardPress(kb, key) EXCEPT
                 !.op = "press", !.arg = key,
                 !.alone = @ /\ kb.pc \in {"idle", "ret"}]
    /\ UNCHANGED <<coreVars, dlg, shot, inVars, ss, pt>>

\* A caller of the page calls Keyboard.Release(key).
Release(key) ==
    /\ Len(kb.log) < MaxKeyEvents
    /\ kb' = [KeyboardRelease(kb, key) EXCEPT
                 !.op = "release", !.arg = key,
                 !.alone = @ /\ kb.pc \in {"idle", "ret"}]
    /\ UNCHANGED <<coreVars, dlg, shot, inVars, ss, pt>>

\* Keyboard.Type(key) is called.
TypeBegin(key) ==
    /\ kb.pc = "idle"
    /\ kb' = [kb EXCEPT !.pc = "press", !.key = key, !.before = kb.pressed]
    /\ UNCHANGED <<coreVars, dlg, shot, inVars, ss, pt>>

\* Type: k.Press(key) with outcome r; an error is returned at once.
TypePress(r) ==
    /\ kb.pc = "press"
    /\ Len(kb.log) < MaxKeyEvents
    /\ r \in CallOutcomes(Self)
    /\ kb' = [KeyboardPress(kb, kb.key) EXCEPT
                 !.op = "press", !.arg = kb.key,
                 !.pc = IF r = "ok" THEN "release" ELSE "ret",
                 !.result = IF r = "ok" THEN "" ELSE r]
    /\ UNCHANGED <<coreVars, dlg, shot, inVars, ss, pt>>

\* Type: k.Release(key) with outcome r, the result of Type.
TypeRelease(r) ==
    /\ kb.pc = "release"
    /\ Len(kb.log) < MaxKeyEvents
    /\ r \in CallOutcomes(Self)
    /\ kb' = [KeyboardRelease(kb, kb.key) EXCEPT
                 !.op = "release", !.arg = kb.key,
                 !.pc = "ret",
                 !.result = IF r = "ok" \/ kb.key \notin kb.pressed THEN "nil" ELSE r]
    /\ UNCHANGED <<coreVars, dlg, shot, inVars, ss, pt>>

(* ---------------------- Keyboard, call by call ------------------------- *)

\* The goroutines that call Press and Release on the keyboard of the page.
Callers == {"c1", "c2"}

\* The keys they press and release.
CallerKeys == {"ShiftLeft", "KeyA"}

\* A caller enters Press(key) or Release(key); k.Lock() comes next.
KeyCallBegin(c, type, key) ==
    /\ kt.pc[c] = "idle"
    /\ Len(kt.muts) + Cardinality({d \in Callers : kt.pc[d] \in {"wait", "locked"}})
          < MaxKeyEvents
    /\ kt' = [kt EXCEPT !.pc[c] = "wait", !.ev[c] = KeyEvent(type, key, 0)]
    /\ UNCHANGED <<coreVars, dlg, shot, kb, ms, clk, ml, ka, ss, pt>>

\* k.Lock(): the caller gets the mutex of the keyboard when no one holds it.
KeyLock(c) ==
    /\ kt.pc[c] = "wait"
    /\ kt.holder = ""
    /\ kt' = [kt EXCEPT !.pc[c] = "locked", !.holder = c]
    /\ UNCHANGED <<coreVars, dlg, shot, kb, ms, clk, ml, ka, ss, pt>>

\* The pressed set after the statement of Press or Release that changes it.
KeyMutation(type, key) ==
    IF type = "keyDown" THEN kb.pressed \cup {key} ELSE kb.pressed \ {key}

\* A Press or Release that gives the mutex back once the pressed set is
\* changed, before the call.
KeyMutateThenUnlock(c) ==
    /\ kt.pc[c] = "locked"
    /\ LET e == kt.ev[c]
       IN  IF e.type = "keyUp" /\ e.key \notin kb.pressed
           THEN /\ kt' = [kt EXCEPT !.pc[c] = "idle", !.holder = ""]
                /\ UNCHANGED kb
           ELSE LET pressed == KeyMutation(e.type, e.key)
                    sent == KeyEvent(e.type, e.key, KeyboardModifiers(pressed))
                IN  /\ kb' = [kb EXCEPT !.pressed = pressed]
                    /\ kt' = [kt EXCEPT !.pc[c] = "call", !.ev[c] = sent,
                                        !.holder = "",
                                        !.muts = Append(@, sent)]
    /\ UNCHANGED <<coreVars, dlg, shot, ms, clk, ml, ka, ss, pt>>

\* Under the mutex: Release of a key that is not pressed returns nil, and the
\* deferred Unlock runs; otherwise the pressed set is changed and the event
\* is encoded with the modifiers of the new set.
KeyMutate(c) ==
    /\ kt.pc[c] = "locked"
    /\ LET e == kt.ev[c]
       IN  IF e.type = "keyUp" /\ e.key \notin kb.pressed
           THEN /\ kt' = [kt EXCEPT !.pc[c] = "idle", !.holder = ""]
                /\ UNCHANGED kb
           ELSE LET pressed == KeyMutation(e.type, e.key)
                    sent == KeyEvent(e.type, e.key, KeyboardModifiers(pressed))
                IN  /\ kb' = [kb EXCEPT !.pressed = pressed]
                    /\ kt' = [kt EXCEPT !.pc[c] = "call", !.ev[c] = sent,
                                        !.muts = Append(@, sent)]
    /\ UNCHANGED <<coreVars, dlg, shot, ms, clk, ml, ka, ss, pt>>

\* The call: the event reaches the browser, the call returns with outcome
\* r, which Press or Release returns, and the deferred Unlock runs.
KeyCall(c, r) ==
    /\ kt.pc[c] = "call"
    /\ r \in CallOutcomes(Self) \ {"cancelled"}
    /\ kb' = [kb EXCEPT !.log = Append(@, kt.ev[c]),
                        !.op = IF kt.ev[c].type = "keyDown" THEN "press" ELSE "release",
                        !.arg = kt.ev[c].key,
                        !.result = r]
    /\ kt' = [kt EXCEPT !.pc[c] = "idle", !.holder = ""]
    /\ UNCHANGED <<coreVars, dlg, shot, ms, clk, ml, ka, ss, pt>>

(* -------------------------------- Mouse -------------------------------- *)

\* How many events the mouse sends in one behaviour through MoveTo, Down, Up
\* and Click.
MaxMouseEvents == 3

Buttons == {"left", "right"}

\* The points the mouse is moved to.  A point stands for both coordinates:
\* every operation treats x and y alike.
Points == {0, 12}

\* The bit of a button in the Buttons field of a mouse event.
MouseKeys(button) == IF button = "left" THEN 1 ELSE 2

\* input.EncodeMouseButton(buttons): the first held button, or none, and the
\* OR of the bits of the held buttons.
RECURSIVE EncodeMouseButtons(_)
EncodeMouseButtons(buttons) ==
    IF buttons = <<>> THEN 0
    ELSE BitOr(MouseKeys(Head(buttons)), EncodeMouseButtons(Tail(buttons)))

EncodeMouseButton(buttons) ==
    <<IF buttons = <<>> THEN "none" ELSE buttons[1], EncodeMouseButtons(buttons)>>

\* proto.InputDispatchMouseEvent: the fields the mouse sets.
MouseEvent(type, button, buttons, x, modifiers) ==
    [type |-> type, button |-> button, buttons |-> buttons, x |-> x, mods |-> modifiers]

\* m.page.Keyboard.getModifiers(): the modifiers of the pressed keys, read
\* under the keyboard's lock.
GetModifiers == KeyboardModifiers(kb.pressed)

\* A MoveTo that stores the position before the call.
MouseMoveToStoresFirst(m, p, r) ==
    LET enc == EncodeMouseButton(m.buttons)
    IN  [m EXCEPT !.sent = @ + 1,
                  !.last = MouseEvent("mouseMoved", enc[1], enc[2], p, GetModifiers),
                  !.pos = p,
                  !.op = "move", !.arg = p, !.result = r]

\* The mouse m after MoveTo(p) whose call had outcome r: mouseMoved is sent
\* with the held buttons; the position is stored when the call succeeded.
MouseMoveTo(m, p, r) ==
    LET enc == EncodeMouseButton(m.buttons)
    IN  [m EXCEPT !.sent = @ + 1,
                  !.last = MouseEvent("mouseMoved", enc[1], enc[2], p, GetModifiers),
                  !.pos = IF r = "ok" THEN p ELSE @,
                  !.op = "move", !.arg = p, !.result = r]

\* The mouse m after Down(button) whose call had outcome r: mousePressed is
\* sent with the buttons after the press; on success the button is appended
\* to the held buttons, whether it is held already or not.
MouseDown(m, button, r) ==
    LET toButtons == Append(m.buttons, button)
    IN  [m EXCEPT !.sent = @ + 1,
                  !.last = MouseEvent("mousePressed", button, EncodeMouseButton(toButtons)[2],
                                      m.pos, GetModifiers),
                  !.buttons = IF r = "ok" THEN toButtons ELSE @,
                  !.op = "down", !.arg = button, !.result = r]

\* The held buttons without the entries equal to button: the loop of Up
\* skips every such entry.
RECURSIVE WithoutButton(_, _)
WithoutButton(buttons, button) ==
    IF buttons = <<>> THEN <<>>
    ELSE IF Head(buttons) = button THEN WithoutButton(Tail(buttons), button)
    ELSE <<Head(buttons)>> \o WithoutButton(Tail(buttons), button)

\* The mouse m after Up(button) whose call had outcome r: mouseReleased is
\* sent with the buttons after the release; on success they are stored.
MouseUp(m, button, r) ==
    LET toButtons == WithoutButton(m.buttons, button)
    IN  [m EXCEPT !.sent = @ + 1,
                  !.last = MouseEvent("mouseReleased", button, EncodeMouseButton(toButtons)[2],
                                      m.pos, GetModifiers),
                  !.buttons = IF r = "ok" THEN toButtons ELSE @,
                  !.op = "up", !.arg = button, !.result = r]

\* A caller of the page calls Mouse.MoveTo(p).
MoveTo(p, r) ==
    /\ ms.sent < MaxMouseEvents
    /\ r \in CallOutcomes(Self)
    /\ ms' = MouseMoveTo(ms, p, r)
    /\ UNCHANGED <<coreVars, dlg, shot, kb, clk, ml, ka, kt, ss, pt>>

\* A caller of the page calls Mouse.Down(button, n).
Down(button, r) ==
    /\ ms.sent < MaxMouseEvents
    /\ r \in CallOutcomes(Self)
    /\ ms' = MouseDown(ms, button, r)
    /\ UNCHANGED <<coreVars, dlg, shot, kb, clk, ml, ka, kt, ss, pt>>

\* A caller of the page calls Mouse.Up(button, n).
Up(button, r) ==
    /\ ms.sent < MaxMouseEvents
    /\ r \in CallOutcomes(Self)
    /\ ms' = MouseUp(ms, button, r)
    /\ UNCHANGED <<coreVars, dlg, shot, kb, clk, ml, ka, kt, ss, pt>>

\* Mouse.Click(button, n) is called.
ClickBegin(button) ==
    /\ clk.pc \in {"idle", "ret"}
    /\ clk' = [pc |-> "down", button |-> button, result |-> ""]
    /\ UNCHANGED <<coreVars, dlg, shot, kb, ms, ml, ka, kt, ss, pt>>

\* Click: m.Down(button, n) with outcome r; an error is returned at once.
ClickDown(r) ==
    /\ clk.pc = "down"
    /\ ms.sent < MaxMouseEvents
    /\ r \in CallOutcomes(Self)
    /\ ms' = MouseDown(ms, clk.button, r)
    /\ clk' = [clk EXCEPT !.pc = IF r = "ok" THEN "up" ELSE "ret",
                          !.result = IF r = "ok" THEN "" ELSE r]
    /\ UNCHANGED <<coreVars, dlg, shot, kb, ml, ka, kt, ss, pt>>

\* Click: m.Up(button, n) with outcome r, the result of Click.
ClickUp(r) ==
    /\ clk.pc = "up"
    /\ ms.sent < MaxMouseEvents
    /\ r \in CallOutcomes(Self)
    /\ ms' = MouseUp(ms, clk.button, r)
    /\ clk' = [clk EXCEPT !.pc = "ret", !.result = IF r = "ok" THEN "nil" ELSE r]
    /\ UNCHANGED <<coreVars, dlg, shot, kb, ml, ka, kt, ss, pt>>

(* ------------------- Mouse and Touch, call by call --------------------- *)

\* The goroutines that call the mouse of the page, and the one that calls
\* its touch device.
MouseCallers == {"m1", "m2"}

TouchCallers == {"t1"}

\* The operations of the mouse and of the touch device that send events:
\* MoveTo(12), Down(left), Up(left), Scroll(0, dy, 2), and Touch.Move.
MouseOps == {"move", "down", "up", "scroll"}

TouchOps == {"touchMove"}

\* The events an operation sends when no call fails: Scroll one for each of
\* its steps, the others one.
EventsOf(op) == IF op = "scroll" THEN 2 ELSE 1

\* The events the mouse callers inside an operation have still to send.
RECURSIVE EventsLeft(_)
EventsLeft(cs) ==
    IF cs = {} THEN 0
    ELSE LET c == CHOOSE d \in cs : TRUE
         IN  pt.left[c] + EventsLeft(cs \ {c})

\* A caller enters an operation of the mouse; m.Lock() comes next.
MouseCallBegin(c, op) ==
    /\ c \in MouseCallers
    /\ pt.pc[c] = "idle"
    /\ ms.sent + EventsLeft(MouseCallers) + EventsOf(op) <= MaxMouseEvents
    /\ pt' = [pt EXCEPT !.pc[c] = "enter", !.op[c] = op, !.left[c] = EventsOf(op)]
    /\ UNCHANGED <<coreVars, dlg, shot, kb, inVars, ss>>

\* m.Lock(): the caller gets the mutex of the mouse when no one holds it.
MouseLock(c) ==
    /\ pt.pc[c] = "enter"
    /\ pt.holder = ""
    /\ pt' = [pt EXCEPT !.pc[c] = "kwait", !.holder = c]
    /\ UNCHANGED <<coreVars, dlg, shot, kb, inVars, ss>>

\* A caller enters an operation of the touch device, which has no mutex:
\* getModifiers comes next.
TouchCallBegin(c, op) ==
    /\ c \in TouchCallers
    /\ pt.pc[c] = "idle"
    /\ pt' = [pt EXCEPT !.pc[c] = "kwait", !.op[c] = op, !.left[c] = 1]
    /\ UNCHANGED <<coreVars, dlg, shot, kb, inVars, ss>>

\* getModifiers, k.Lock(): the caller gets the mutex of the keyboard when no
\* one holds it.
GetModifiersLock(c) ==
    /\ pt.pc[c] = "kwait"
    /\ kt.holder = ""
    /\ kt' = [kt EXCEPT !.holder = c]
    /\ pt' = [pt EXCEPT !.pc[c] = "mods"]
    /\ UNCHANGED <<coreVars, dlg, shot, kb, ms, clk, ml, ka, ss>>

\* A getModifiers that returns without the deferred Unlock.
GetModifiersKeepsLock(c) ==
    /\ pt.pc[c] = "mods"
    /\ pt' = [pt EXCEPT !.pc[c] = "call", !.mods[c] = KeyboardModifiers(kb.pressed)]
    /\ UNCHANGED <<coreVars, dlg, shot, kb, inVars, ss>>

\* getModifiers, return k.modifiers() and the deferred k.Unlock().
GetModifiersReturn(c) ==
    /\ pt.pc[c] = "mods"
    /\ kt' = [kt EXCEPT !.holder = ""]
    /\ pt' = [pt EXCEPT !.pc[c] = "call", !.mods[c] = KeyboardModifiers(kb.pressed)]
    /\ UNCHANGED <<coreVars, dlg, shot, kb, ms, clk, ml, ka, ss>>

\* The mouse m after one step of Scroll whose call had outcome r:
\* mouseWheel is sent at the position of the mouse with the held buttons.
MouseScroll(m, r) ==
    LET enc == EncodeMouseButton(m.buttons)
    IN  [m EXCEPT !.sent = @ + 1,
                  !.last = MouseEvent("mouseWheel", enc[1], enc[2], m.pos, GetModifiers),
                  !.op = "scroll", !.arg = "", !.result = r]

\* The mouse after the call of operation op with outcome r, the event
\* carrying the modifiers the caller has read.
MouseAfter(op, mods, r) ==
    LET m == IF op = "move" THEN MouseMoveTo(ms, 12, r)
             ELSE IF op = "down" THEN MouseDown(ms, "left", r)
             ELSE IF op = "up" THEN MouseUp(ms, "left", r)
             ELSE MouseScroll(ms, r)
    IN  [m EXCEPT !.last.mods = mods]

\* The call of a mouse operation returns with outcome r.  MoveTo, Down and
\* Up store the new state when the call succeeded and return; Scroll goes
\* on to its next step when the call succeeded and steps are left.  On
\* every return the deferred m.Unlock() runs.
MouseCall(c, r) ==
    /\ c \in MouseCallers
    /\ pt.pc[c] = "call"
    /\ r \in CallOutcomes(Self)
    /\ ms' = MouseAfter(pt.op[c], pt.mods[c], r)
    /\ pt' = IF r = "ok" /\ pt.left[c] > 1
             THEN [pt EXCEPT !.pc[c] = "kwait", !.left[c] = @ - 1]
             ELSE [pt EXCEPT !.pc[c] = "idle", !.left[c] = 0, !.holder = ""]
    /\ UNCHANGED <<coreVars, dlg, shot, kb, clk, ml, ka, kt, ss>>

\* The call of a touch operation returns with outcome r, which the
\* operation returns.
TouchCall(c, r) ==
    /\ c \in TouchCallers
    /\ pt.pc[c] = "call"
    /\ r \in CallOutcomes(Self)
    /\ pt' = [pt EXCEPT !.pc[c] = "ret", !.left[c] = 0,
                        !.result = IF r = "ok" THEN "nil" ELSE r]
    /\ UNCHANGED <<coreVars, dlg, shot, kb, inVars, ss>>

(* --------------------------- Mouse.MoveLinear -------------------------- *)

\* How many moves one MoveLinear is followed for.  The counter of its guide
\* function is an int that only grows, so a loop that has not stopped by
\* then goes on until the counter has wrapped around.
MaxMoves == 4

\* The values of steps MoveLinear is called with.
StepValues == {-1, 0, 1, 2, 3}

\* A coordinate that is not a number any more, an infinity or a NaN, as a
\* value no point of the model takes.
NonFinite == 1000001

\* to.Minus(p).Scale(1 / float64(steps)): the step of MoveLinear.  With
\* steps = 0 the factor is +Inf and the step is an infinity or a NaN.  The
\* points of the model are multiples of 12, so that the division is exact.
LinearStep(to, p, steps) ==
    IF steps = 0 THEN NonFinite
    ELSE IF steps > 0 THEN (to - p) \div steps
    ELSE 0 - ((to - p) \div (0 - steps))

\* p.Add(step).
PointAdd(p, step) ==
    IF p = NonFinite \/ step = NonFinite THEN NonFinite ELSE p + step

\* Mouse.MoveLinear(to, steps) is called: it reads the position and makes
\* the guide function of MoveAlong.
MoveLinearBegin(to, steps) ==
    /\ ml.pc = "idle"
    /\ ml' = [pc |-> "run", to |-> to, steps |-> steps, from |-> ms.pos, p |-> ms.pos,
              step |-> LinearStep(to, ms.pos, steps), count |-> 0, moves |-> <<>>,
              result |-> ""]
    /\ UNCHANGED <<coreVars, dlg, shot, kb, ms, clk, ka, kt, ss, pt>>

\* The guide function of MoveLinear, called on the state m of the call: the
\* point, whether to stop, and the new p.  It stops when the counter is
\* equal to steps.
Guide(m) ==
    LET count == m.count + 1
    IN  IF count = m.steps THEN <<m.to, TRUE, m.p>>
        ELSE <<PointAdd(m.p, m.step), FALSE, PointAdd(m.p, m.step)>>

\* One round of the loop of MoveAlong: the guide function is called and the
\* mouse is moved to its point, with outcome r of the call.  A point that is
\* not a number cannot be sent, so that call never succeeds.  MoveAlong
\* returns after the move of the stop point, or at the first error.
MoveAlongStep(r) ==
    /\ ml.pc = "run"
    /\ Len(ml.moves) < MaxMoves
    /\ r \in CallOutcomes(Self)
    /\ LET g == Guide(ml)
       IN  /\ g[1] = NonFinite => r # "ok"
           /\ ms' = MouseMoveTo(ms, g[1], r)
           /\ ml' = [ml EXCEPT !.count = @ + 1,
                               !.p = g[3],
                               !.moves = Append(@, g[1]),
                               !.pc = IF g[2] \/ r # "ok" THEN "ret" ELSE "run",
                               !.result = IF r # "ok" THEN r
                                          ELSE IF g[2] THEN "nil" ELSE ""]
    /\ UNCHANGED <<coreVars, dlg, shot, kb, clk, ka, kt, ss, pt>>

(* --------------------------- ScrollScreenshot -------------------------- *)

\* How many slices of one ScrollScreenshot are followed.
MaxSlices == 4

\* The layouts GetLayoutMetrics reports: the height of the visual viewport
\* and the height of the content, in CSS pixels.
Layouts == [viewpointHeight : {1, 2}, contentHeight : {0, 1, 3}]

\* The options of a call: the pixels to skip at the top and at the bottom.
ScrollOptions == [fixedTop : {0, 1}, fixedBottom : {0, 2}]

\* scrollY of a call c: the height of the viewport less the fixed parts.
ScrollY(c) == c.viewpointHeight - (c.fixedTop + c.fixedBottom)

\* The clip of the slice at c.scrollTop, as <<Y, Height>>: what is left of
\* the content when the viewport reaches beyond it, else scrollY, from
\* fixedTop further down after the first slice.
ScrollClip(c) ==
    IF c.scrollTop + c.viewpointHeight > c.contentHeight
    THEN <<c.scrollTop, c.contentHeight - c.scrollTop>>
    ELSE <<IF c.scrollTop # 0 THEN c.scrollTop + c.fixedTop ELSE c.scrollTop, ScrollY(c)>>

\* ScrollScreenshot(opt) is called: proto.PageGetLayoutMetrics{}.Call(p) with
\* outcome r and layout m, whose sizes are present or not.
ScrollScreenshotBegin(opt, m, hasSize, r) ==
    /\ ss.pc = "idle"
    /\ r \in CallOutcomes(Self)
    /\ ss' = IF r # "ok" THEN [ss EXCEPT !.pc = "ret", !.result = r]
             ELSE IF ~hasSize THEN [ss EXCEPT !.pc = "ret", !.result = "noSize"]
             ELSE [ss EXCEPT !.pc = "capture", !.fixedTop = opt.fixedTop,
                             !.fixedBottom = opt.fixedBottom,
                             !.viewpointHeight = m.viewpointHeight,
                             !.contentHeight = m.contentHeight]
    /\ UNCHANGED <<coreVars, dlg, shot, kb, inVars, pt>>

\* The first half of a round of the loop: the capture of the clip with
\* outcome r, then scrollTop += scrollY and the test that ends the loop.
ScrollCapture(r) ==
    /\ ss.pc = "capture"
    /\ Len(ss.clips) < MaxSlices
    /\ r \in CallOutcomes(Self)
    /\ ss' = IF r # "ok" THEN [ss EXCEPT !.pc = "ret", !.result = r]
             ELSE [ss EXCEPT !.clips = Append(@, ScrollClip(ss)),
                             !.scrollTop = @ + ScrollY(ss),
                             !.pc = IF ss.scrollTop + ScrollY(ss) >= ss.contentHeight
                                    THEN "splice" ELSE "scroll"]
    /\ UNCHANGED <<coreVars, dlg, shot, kb, inVars, pt>>

\* p.Mouse.Scroll(0, scrollY, 1): one mouseWheel event, with outcome r.
ScrollWheel(r) ==
    /\ ss.pc = "scroll"
    /\ r \in CallOutcomes(Self)
    /\ ss' = IF r = "ok" THEN [ss EXCEPT !.pc = "stable"]
             ELSE [ss EXCEPT !.pc = "ret", !.result = "scrollError"]
    /\ UNCHANGED <<coreVars, dlg, shot, kb, inVars, pt>>

\* p.WaitDOMStable(opt.WaitPerScroll, 0) returns: nil after a snapshot that
\* equals the one before it, or the error r of one of its calls.
ScrollWaitStable(r) ==
    /\ ss.pc = "stable"
    /\ r \in CallOutcomes(Self)
    /\ ss' = IF r = "ok" THEN [ss EXCEPT !.pc = "capture"]
             ELSE [ss EXCEPT !.pc = "ret", !.result = "stableError"]
    /\ UNCHANGED <<coreVars, dlg, shot, kb, inVars, pt>>

\* utils.SplicePngVertical puts the slices together, or fails.
ScrollSplice(ok) ==
    /\ ss.pc = "splice"
    /\ ss' = [ss EXCEPT !.pc = "ret", !.result = IF ok THEN "nil" ELSE "spliceError"]
    /\ UNCHANGED <<coreVars, dlg, shot, kb, inVars, pt>>

(* ------------------------------ KeyActions ----------------------------- *)

\* How many actions are scheduled on one KeyActions.
MaxActions == 3

\* The keys the actions are about.
ActionKeys == {"ControlLeft", "ShiftLeft"}

\* KeyActionPress, KeyActionRelease, KeyActionTypeKey.
KeyActionTypes == {"press", "release", "type"}

\* KeyAction{Type, Key}.
KeyAction(type, key) == [type |-> type, key |-> key]

\* The map h of balance after the loop over the actions: per key, whether
\* its last action is a Press; the set of the keys it maps to true.
RECURSIVE NeedRelease(_)
NeedRelease(actions) ==
    IF actions = <<>> THEN {}
    ELSE LET n == Len(actions)
             a == actions[n]
             h == NeedRelease(SubSeq(actions, 1, n - 1))
         IN  IF a.type = "press" THEN h \cup {a.key} ELSE h \ {a.key}

\* The orders in which a range over a map can visit a set of keys.
RangeOrders(keys) ==
    {o \in [1..Cardinality(keys) -> keys] : \A i, j \in DOMAIN o : o[i] = o[j] => i = j}

\* A balance that releases every key some action presses.
BalanceEveryPress(actions) ==
    LET keys == {actions[i].key : i \in {j \in DOMAIN actions : actions[j].type = "press"}}
    IN  {actions \o [i \in DOMAIN o |-> KeyAction("release", o[i])] : o \in RangeOrders(keys)}

\* ka.balance(): the lists it can return, one per order of the range over h.
\* The scheduled actions come first, then a Release of every key h maps to
\* true.
Balance(actions) ==
    LET keys == NeedRelease(actions)
    IN  {actions \o [i \in DOMAIN o |-> KeyAction("release", o[i])] : o \in RangeOrders(keys)}

\* ka.Press(key), ka.Release(key) or ka.Type(key): the action is appended.
KeyActionsAppend(type, key) ==
    /\ ka.pc \in {"idle", "ret"}
    /\ Len(ka.actions) < MaxActions
    /\ ka' = [ka EXCEPT !.actions = Append(@, KeyAction(type, key))]
    /\ UNCHANGED <<coreVars, dlg, shot, kb, ms, clk, ml, kt, ss, pt>>

\* ka.Do() is called, for the first or the second time: the range of its
\* loop is ka.balance().
DoBegin ==
    /\ ka.pc \in {"idle", "ret"}
    /\ ka.runs \in {0, 1}
    /\ \E sched \in Balance(ka.actions) :
          ka' = [ka EXCEPT !.pc = "run", !.sched = sched, !.i = 1,
                           !.runs = @ + 1, !.result = "", !.did = {},
                           !.first = IF ka.runs = 0 THEN sched ELSE @,
                           !.base = IF ka.runs = 0 THEN ka.actions ELSE @]
    /\ UNCHANGED <<coreVars, dlg, shot, kb, ms, clk, ml, kt, ss, pt>>

\* Do: the loop is over and nil is returned.
DoEnd ==
    /\ ka.pc = "run"
    /\ ka.i > Len(ka.sched)
    /\ ka' = [ka EXCEPT !.pc = "ret", !.result = "nil"]
    /\ UNCHANGED <<coreVars, dlg, shot, kb, ms, clk, ml, kt, ss, pt>>

\* Do: one Press or Release of the list, or the Press of a Type, whose call
\* has outcome r.  A Release of a key that is not pressed makes no call and
\* returns nil.  An error ends Do at once.
DoStep(r) ==
    /\ ka.pc = "run"
    /\ ka.i <= Len(ka.sched)
    /\ r \in CallOutcomes(Self)
    /\ LET a == ka.sched[ka.i]
           nocall == a.type = "release" /\ a.key \notin kb.pressed
           err == r # "ok" /\ ~nocall
       IN  /\ kb' = [(IF a.type = "release" THEN KeyboardRelease(kb, a.key)
                                            ELSE KeyboardPress(kb, a.key))
                        EXCEPT !.op = IF a.type = "release" THEN "release" ELSE "press",
                               !.arg = a.key]
           /\ ka' = [ka EXCEPT !.pc = IF err THEN "ret"
                                      ELSE IF a.type = "type" THEN "type" ELSE "run",
                               !.i = IF err \/ a.type = "type" THEN @ ELSE @ + 1,
                               !.did = IF a.type = "release" THEN @ ELSE @ \cup {a.key},
                               !.result = IF err THEN r ELSE @]
    /\ UNCHANGED <<coreVars, dlg, shot, ms, clk, ml, kt, ss, pt>>

\* Do: the Release of a Type, whose call has outcome r.
DoTypeRelease(r) ==
    /\ ka.pc = "type"
    /\ r \in CallOutcomes(Self)
    /\ LET a == ka.sched[ka.i]
           err == r # "ok" /\ a.key \in kb.pressed
       IN  /\ kb' = [KeyboardRelease(kb, a.key) EXCEPT !.op = "release", !.arg = a.key]
           /\ ka' = [ka EXCEPT !.pc = IF err THEN "ret" ELSE "run",
                               !.i = IF err THEN @ ELSE @ + 1,
                               !.result = IF err THEN r ELSE @]
    /\ UNCHANGED <<coreVars, dlg, shot, ms, clk, ml, kt, ss, pt>>

(* --------------------------- specification ----------------------------- *)

Next ==
    \/ \E e \in TargetMsgs \cup {FrameNavigated("S1", "F1"), FrameNavigated("S2", "F1")} :
          Deliver(e)
    \/ \E p \in Pages : Dispatch(p)
    \/ PageEvent
    \/ ForwardRecv
    \/ ForwardSend
    \/ ForwardExit

Spec == Init /\ [][Next]_vars

\* The forwarding goroutine of Page.Event is scheduled fairly: a receive
\* from the subscription and a return on p.ctx.Done() that stay possible
\* are taken.  The reader of the channel is under no obligation to read.
EventFairness ==
    /\ WF_vars(ForwardRecv)
    /\ WF_vars(ForwardExit)

SpecEvent == Init /\ [][Next]_vars /\ EventFairness

\* Close on two pages of one browser, with the dispatcher of the first.
NextClose ==
    \/ \E e \in DialogMsgs \cup {Destroyed("T1"), Destroyed("T2"), Detached("S1")} :
          Deliver(e)
    \/ Dispatch(Self)
    \/ \E p \in Pages : CloseBegin(p)
    \/ \E p \in Pages : \E r \in {"ok", "error", "cancelled", "notAttached"} :
          CloseCall(p, r)
    \/ \E p \in Pages : CloseLoopMsg(p)
    \/ \E p \in Pages : CloseLoopEnd(p)

SpecClose == Init /\ [][NextClose]_vars

\* The outcomes a call can be given; CallOutcomes says which can happen.
Outcomes == {"ok", "error", "cancelled"}

\* Navigate and Reload on Self, next to evaluations of other callers.
NextNav ==
    \/ \E e \in {FrameNavigated("S1", "F1"), Detached("S1")} : Deliver(e)
    \/ Dispatch(Self)
    \/ \E v \in Views, r \in Outcomes : Evaluate(v, r)
    \/ \E id \in {"c1", "c2"}, r \in Outcomes : ElementFromObject(id, r)
    \/ \E v \in Views, url \in {"", "u"} : NavigateBegin(v, url)
    \/ \E r \in Outcomes : NavigateStop(r)
    \/ \E r \in Outcomes, text \in {"", "net::ERR"} : NavigateCall(r, text)
    \/ \E v \in Views : ReloadBegin(v)
    \/ \E r \in Outcomes : ReloadEvaluate(r)
    \/ ReloadWaitMsg
    \/ ReloadWaitEnd

SpecNav == Init /\ [][NextNav]_vars

\* Reload on Self over events of two frames and of two sessions.
NextReload ==
    \/ \E e \in FrameMsgs \cup {Detached("S1")} : Deliver(e)
    \/ Dispatch(Self)
    \/ \E r \in Outcomes : Evaluate("page", r)
    \/ ReloadBegin("page")
    \/ \E r \in Outcomes : ReloadEvaluate(r)
    \/ ReloadWaitMsg
    \/ ReloadWaitEnd

SpecReload == Init /\ [][NextReload]_vars

\* The network events WaitRequestIdle is run against: a request, its
\* redirect under the same id, a request of an excluded type, and the two
\* ways a request ends.
IdleMsgs ==
    {RequestWillBeSent("S1", "r1", "Document", "/a"),
     RequestWillBeSent("S1", "r1", "Document", "/b"),
     RequestWillBeSent("S1", "r2", "Image", "/i"),
     LoadingFinished("S1", "r1"), LoadingFailed("S1", "r1")}

\* WaitRequestIdle on Self, with the clock, the browser and the dispatcher.
NextIdle ==
    \/ \E e \in IdleMsgs \cup {Detached("S1")} : Deliver(e)
    \/ Dispatch(Self)
    \/ IdleBegin
    \/ IdleWaitCall
    \/ IdleCounterWait
    \/ IdleTimerFire
    \/ IdleCancel
    \/ IdleWaitMsg
    \/ IdleWaitEnd

SpecIdle == Init /\ [][NextIdle]_vars

\* The network events the tracked set of WaitRequestIdle is counted against:
\* a tracked request, a request of an excluded type, a request whose url the
\* excludes match, and the events that end each of them.
CountMsgs ==
    {RequestWillBeSent("S1", "r1", "Document", "/a"),
     RequestWillBeSent("S1", "r2", "Image", "/b"),
     RequestWillBeSent("S1", "r3", "Document", "/x"),
     LoadingFinished("S1", "r1"), LoadingFailed("S1", "r1"),
     LoadingFinished("S1", "r2"), LoadingFailed("S1", "r3")}

\* WaitRequestIdle on Self with excludes that match /x, with the clock and
\* the browser.
NextIdleCount ==
    \/ \E e \in CountMsgs : Deliver(e)
    \/ IdleBeginExcludes({"/x"})
    \/ IdleWaitCall
    \/ IdleCounterWait
    \/ IdleTimerFire
    \/ IdleCancel
    \/ IdleWaitMsg
    \/ IdleWaitEnd

SpecIdleCount == Init /\ [][NextIdleCount]_vars

\* WaitDOMStable on Self while the document changes, with a max_diff of 0
\* and of one half.
NextStable ==
    \/ Deliver(Detached("S1"))
    \/ Dispatch(Self)
    \/ \E d \in DomValues : DomChange(d)
    \/ \E diff \in {0, 50}, r \in Outcomes : StableBegin(diff, r)
    \/ \E r \in Outcomes : StableTick(r)
    \/ StableCancel

SpecStable == Init /\ [][NextStable]_vars

\* WaitStable on Self: its three tasks, the clock, the document, the
\* browser and the dispatcher.
NextWaitStable ==
    \/ Deliver(Detached("S1"))
    \/ Dispatch(Self)
    \/ \E d \in {<<"a">>, <<"a", "b">>} : DomChange(d)
    \/ WaitStableBegin
    \/ \E r \in Outcomes : WaitStableLoad(r)
    \/ ws.pc = "run" /\ IdleBegin
    \/ IdleWaitCall
    \/ IdleCounterWait
    \/ IdleTimerFire
    \/ IdleCancel
    \/ IdleWaitMsg
    \/ IdleWaitEnd
    \/ ws.pc = "run" /\ \E r \in Outcomes : StableBegin(0, r)
    \/ \E r \in Outcomes : StableTick(r)
    \/ StableCancel
    \/ WaitStableDOM
    \/ WaitStableReturn

SpecWaitStable == Init /\ [][NextWaitStable]_vars

\* The dialog events HandleDialog is run against.
OpeningMsgs ==
    {DialogOpening("S1", "d1"), DialogOpening("S1", "d2"), DialogOpening("S2", "d3")}

\* HandleDialog on Self and its two functions, the browser and the dispatcher.
NextDialog ==
    \/ \E e \in OpeningMsgs \cup {Detached("S1")} : Deliver(e)
    \/ Dispatch(Self)
    \/ PageEnable
    \/ \E r \in Outcomes \cup {"already"} : HandleDialogEnable(r)
    \/ HandleDialogSubscribe
    \/ DialogWaitCall
    \/ DialogWaitMsg
    \/ DialogWaitEnd
    \/ \E r \in Outcomes : DialogHandle(r)

SpecDialog == Init /\ [][NextDialog]_vars

\* Screenshot on Self with and without a stored override, the browser and
\* the dispatcher.
NextScreenshot ==
    \/ Deliver(Detached("S1"))
    \/ Dispatch(Self)
    \/ SetViewport
    \/ \E fullPage \in BOOLEAN : ScreenshotBegin(fullPage)
    \/ \E r \in Outcomes, hasSize \in BOOLEAN : ScreenshotMetrics(r, hasSize)
    \/ \E r \in Outcomes : ScreenshotSetViewport(r)
    \/ \E r \in Outcomes : ScreenshotCapture(r)
    \/ \E r \in Outcomes : ScreenshotRestore(r)

SpecScreenshot == Init /\ [][NextScreenshot]_vars

\* The keyboard of Self under Press, Release and one Type, from callers
\* that may run concurrently.
NextKeyboard ==
    \/ \E key \in Keys : Press(key)
    \/ \E key \in Keys : Release(key)
    \/ \E key \in Keys : TypeBegin(key)
    \/ \E r \in Outcomes : TypePress(r)
    \/ \E r \in Outcomes : TypeRelease(r)

SpecKeyboard == Init /\ [][NextKeyboard]_vars

\* The mouse of Self under MoveTo, Down, Up and Click from callers that may
\* run concurrently, with a Shift key and the end of the session.
NextMouse ==
    \/ Deliver(Detached("S1"))
    \/ Dispatch(Self)
    \/ Press("ShiftLeft")
    \/ \E p \in Points, r \in Outcomes : MoveTo(p, r)
    \/ \E button \in Buttons, r \in Outcomes : Down(button, r)
    \/ \E button \in Buttons, r \in Outcomes : Up(button, r)
    \/ \E button \in Buttons : ClickBegin(button)
    \/ \E r \in Outcomes : ClickDown(r)
    \/ \E r \in Outcomes : ClickUp(r)

SpecMouse == Init /\ [][NextMouse]_vars

\* Two goroutines calling Press and Release on the keyboard of Self.
NextKeyLock ==
    \/ \E c \in Callers, type \in {"keyDown", "keyUp"}, key \in CallerKeys :
          KeyCallBegin(c, type, key)
    \/ \E c \in Callers : KeyLock(c)
    \/ \E c \in Callers : KeyMutate(c)
    \/ \E c \in Callers, r \in Outcomes : KeyCall(c, r)

SpecKeyLock == Init /\ [][NextKeyLock]_vars

\* Reload on Self and, once it has returned, WaitRequestIdle, next to
\* evaluations of other callers, with the clock, the browser and the
\* dispatcher.
NextScope ==
    \/ \E e \in {FrameNavigated("S1", "F1"), Detached("S1")} : Deliver(e)
    \/ Dispatch(Self)
    \/ \E r \in Outcomes : Evaluate("page", r)
    \/ ReloadBegin("page")
    \/ \E r \in Outcomes : ReloadEvaluate(r)
    \/ ReloadWaitMsg
    \/ ReloadWaitEnd
    \/ (rel.pc = "ret" /\ IdleBegin)
    \/ IdleWaitCall
    \/ IdleCounterWait
    \/ IdleTimerFire
    \/ IdleCancel
    \/ IdleWaitMsg
    \/ IdleWaitEnd

SpecScope == Init /\ [][NextScope]_vars

\* One MoveLinear on the mouse of Self, from either point, with the end of
\* the session.
NextMove ==
    \/ Deliver(Detached("S1"))
    \/ Dispatch(Self)
    \/ \E p \in Points, r \in Outcomes : MoveTo(p, r)
    \/ \E to \in Points, steps \in StepValues : MoveLinearBegin(to, steps)
    \/ \E r \in Outcomes : MoveAlongStep(r)

SpecMove == Init /\ [][NextMove]_vars

\* One ScrollScreenshot on Self, for every layout and option, with the end
\* of the session.
NextScroll ==
    \/ Deliver(Detached("S1"))
    \/ Dispatch(Self)
    \/ \E opt \in ScrollOptions, m \in Layouts, hasSize \in BOOLEAN, r \in Outcomes :
          ScrollScreenshotBegin(opt, m, hasSize, r)
    \/ \E r \in Outcomes : ScrollCapture(r)
    \/ \E r \in Outcomes : ScrollWheel(r)
    \/ \E r \in Outcomes : ScrollWaitStable(r)
    \/ \E ok \in BOOLEAN : ScrollSplice(ok)

SpecScroll == Init /\ [][NextScroll]_vars

\* The steps of the callers of the keyboard, the mouse and the touch device
\* that are inside an operation.
InputStep ==
    \/ \E c \in Callers : KeyLock(c)
    \/ \E c \in Callers : KeyMutate(c)
    \/ \E c \in Callers, r \in Outcomes : KeyCall(c, r)
    \/ \E c \in MouseCallers : MouseLock(c)
    \/ \E c \in MouseCallers \cup TouchCallers : GetModifiersLock(c)
    \/ \E c \in MouseCallers \cup TouchCallers : GetModifiersReturn(c)
    \/ \E c \in MouseCallers, r \in Outcomes : MouseCall(c, r)
    \/ \E c \in TouchCallers, r \in Outcomes : TouchCall(c, r)

\* One caller of the keyboard, two of the mouse and one of the touch device
\* on Self, interleaved at every statement that takes or gives back a mutex.
NextInput ==
    \/ kt.muts = <<>> /\ \E type \in {"keyDown", "keyUp"} : KeyCallBegin("c1", type, "ShiftLeft")
    \/ \E c \in MouseCallers, op \in MouseOps : MouseCallBegin(c, op)
    \/ \E c \in TouchCallers, op \in TouchOps : TouchCallBegin(c, op)
    \/ InputStep

SpecInput == Init /\ [][NextInput]_vars

\* One KeyActions of Self: actions are scheduled and Do is called.
NextKeyActions ==
    \/ \E type \in KeyActionTypes, key \in ActionKeys : KeyActionsAppend(type, key)
    \/ DoBegin
    \/ \E r \in Outcomes : DoStep(r)
    \/ \E r \in Outcomes : DoTypeRelease(r)
    \/ DoEnd

SpecKeyActions == Init /\ [][NextKeyActions]_vars

\* No operation of the page has been called yet.
Quiet ==
    /\ rel.pc = "idle"
    /\ close[Self].pc = "idle"
    /\ idle.pc = "idle"
    /\ stab.pc = "idle"

\* The envelopes the waits of NextLive are run against.
LiveMsgs ==
    {Detached("S1"), RequestWillBeSent("S1", "r1", "Document", "/a")}

\* One suspending operation of the page per behaviour (Reload, Close,
\* WaitRequestIdle or WaitDOMStable), the browser and the dispatcher.
NextLive ==
    \/ \E e \in LiveMsgs : Deliver(e)
    \/ Dispatch(Self)
    \/ \E d \in {<<"a">>, <<"a", "b">>} : DomChange(d)
    \/ Quiet /\ ReloadBegin("page")
    \/ \E r \in Outcomes : ReloadEvaluate(r)
    \/ ReloadWaitMsg
    \/ ReloadWaitEnd
    \/ Quiet /\ CloseBegin(Self)
    \/ \E r \in Outcomes \cup {"notAttached"} : CloseCall(Self, r)
    \/ CloseLoopMsg(Self)
    \/ CloseLoopEnd(Self)
    \/ Quiet /\ IdleBegin
    \/ IdleWaitCall
    \/ IdleCounterWait
    \/ IdleTimerFire
    \/ IdleCancel
    \/ IdleWaitMsg
    \/ IdleWaitEnd
    \/ Quiet /\ \E r \in Outcomes : StableBegin(0, r)
    \/ \E r \in Outcomes : StableTick(r)
    \/ StableCancel

\* Goroutines are scheduled fairly and a select with a ready case returns:
\* every step of the dispatcher and of an operation that stays possible is
\* taken.  The browser is under no obligation to deliver or to change.
LiveFairness ==
    /\ WF_vars(Dispatch(Self))
    /\ WF_vars(\E r \in Outcomes : ReloadEvaluate(r))
    /\ WF_vars(ReloadWaitMsg)
    /\ WF_vars(ReloadWaitEnd)
    /\ WF_vars(\E r \in Outcomes \cup {"notAttached"} : CloseCall(Self, r))
    /\ WF_vars(CloseLoopMsg(Self))
    /\ WF_vars(CloseLoopEnd(Self))
    /\ WF_vars(IdleCounterWait)
    /\ WF_vars(IdleCancel)
    /\ WF_vars(IdleWaitMsg)
    /\ WF_vars(IdleWaitEnd)
    /\ WF_vars(\E r \in Outcomes : StableTick(r))
    /\ WF_vars(StableCancel)

SpecLive == Init /\ [][NextLive]_vars /\ LiveFairness

(* ------------------------------ claims --------------------------------- *)

\* The messages of a stretch of the wire that Reload's subscription hands to
\* its callback: frameNavigated events of the session of the page.
ReloadMatching(from, to) ==
    SelectSeq(SubSeq(wire, from + 1, to),
              LAMBDA m : m.sid = SessionID[Self] /\ m.method = EvFrameNavigated)

\* C1: two-step wait.  The subscription Reload takes before it triggers the
\* reload hands to the callback every frameNavigated event of the page's
\* session published after the subscribe step, in order and without a gap,
\* up to the message the wait has reached: none of those published before
\* wait() was called is lost, whatever the interleaving.
C1_TwoStepWait ==
    rel.pc # "idle" =>
        /\ rel.sub <= rel.called \/ rel.pc = "eval"
        /\ seen = ReloadMatching(rel.sub, rel.pos)

\* C1 witness: an event published between the subscribe step and the call
\* of wait() has been handed to the callback.
C1_Witness ==
    /\ rel.pc \in {"wait", "ret"}
    /\ ReloadMatching(rel.sub, rel.called) # <<>>
    /\ seen # <<>>
    /\ seen[1] = ReloadMatching(rel.sub, rel.called)[1]

\* What the reader of Page.Event's channel has been given, with the message
\* the goroutine holds.
EventTaken == IF ev.pc = "send" THEN Append(got, ev.held) ELSE got

C3_TerminationCancels ==
    \A p \in Pages :
        (\E i \in 1..disp[p].pos :
            wire[i] \in {Destroyed(TargetID[p]), Detached(SessionID[p])})
        => cancelled[p]

\* The step in which the second loop of Close on p takes message m.
CloseTakes(p, m) ==
    /\ close[p].pc = "loop"
    /\ close[p].pos < Len(wire)
    /\ wire[close[p].pos + 1] = m
    /\ \/ close'[p].pc = "loop" /\ close'[p].pos = close[p].pos + 1
       \/ close'[p].pc = "ret" /\ close'[p].last = m

\* C5: when Close takes javascriptDialogClosed with result false of its own
\* session, it returns PageCloseCanceledError in that step, without running
\* cleanupStates and without cancelling the scope of the page.
C5_CloseCanceled ==
    [][\A p \in Pages :
          CloseTakes(p, DialogClosed(SessionID[p], FALSE)) =>
              /\ close'[p].pc = "ret"
              /\ close'[p].result = "PageCloseCanceled"
              /\ cleaned' = cleaned
              /\ cancelled' = cancelled]_vars

\* C5 witness: Close returned PageCloseCanceledError and the page is alive.
C5_Witness ==
    /\ close[Self].result = "PageCloseCanceled"
    /\ close[Self].last = DialogClosed("S1", FALSE)
    /\ ~cleaned[Self]
    /\ ~cancelled[Self]

\* C6: Close returns nil only after it has taken TargetDestroyed of the
\* target of the page.
C6_NilOnlyAfterDestroyed ==
    \A p \in Pages :
        close[p].result = "nil" => close[p].last = Destroyed(TargetID[p])

\* C7: Close is serialized.  From the step before the first Page.close call
\* until it returns a Close holds targetsLock, so at most one Close is in
\* progress, and when no Close is in progress the lock is free.
C7_CloseSerialized ==
    /\ \A p \in Pages : close[p].pc \in {"call", "loop"} => lock = p
    /\ (\A p \in Pages : close[p].pc \in {"idle", "ret"}) => lock = ""

\* C7 witness: Close returned for both pages, one canceled and one with
\* success, and the lock is free.
C7_Witness ==
    /\ close["P1"].result = "PageCloseCanceled"
    /\ close["P2"].result = "nil"
    /\ lock = ""

\* The steps in which Navigate and Reload return.
NavigateReturns == nav.pc # "ret" /\ nav'.pc = "ret"

ReloadReturns == rel.pc # "ret" /\ rel'.pc = "ret"

\* C8 as stated: after every return of Navigate or Reload the JS context
\* handle of the page is unset.
C8_EveryReturnClears ==
    [][/\ NavigateReturns => jsCtx'[SlotOf(nav'.on)] = ""
       /\ ReloadReturns => jsCtx'[SlotOf(rel'.on)] = ""]_vars

\* C8 amended: when Navigate returns nil the handle of the root of the page
\* is unset, when Reload returns nil the handle of the page it was called on
\* is unset, and a return with an error unsets no handle.
C8_SuccessClears ==
    [][/\ NavigateReturns =>
             IF nav'.result = "nil" THEN jsCtx'[RootSlot] = "" ELSE jsCtx' = jsCtx
       /\ ReloadReturns =>
             IF rel'.result = "nil" THEN jsCtx'[SlotOf(rel'.on)] = ""
             ELSE \A s \in Slots : jsCtx[s] # "" => jsCtx'[s] = jsCtx[s]]_vars

\* C8 witness: Reload returned nil on a page whose handle had been set, and
\* the handle is unset.
C8_Witness ==
    /\ rel.pc = "ret" /\ rel.result = "nil"
    /\ nav.pc = "ret" /\ nav.result = "nil"
    /\ \A s \in Slots : jsCtx[s] = ""
    /\ clone

\* C9: Navigate asks for about:blank when given the empty url, issues
\* Page.navigate whatever StopLoading answered, returns NavigationError with
\* the text of the response when that text is not empty, and changes the JS
\* context handle only when it returns nil.
C9_Navigate ==
    /\ [](/\ nav.pc # "idle" =>
                nav.url = (IF nav.arg = "" THEN "about:blank" ELSE nav.arg)
          /\ nav.pc = "ret" =>
                /\ nav.sent = nav.url
                /\ nav.text # "" <=> nav.result = "NavigationError"
                /\ nav.result = "NavigationError" => nav.err = nav.text
                /\ nav.result \in {"nil", "NavigationError", "error", "cancelled"})
    /\ [][nav' # nav =>
             IF NavigateReturns /\ nav'.result = "nil"
             THEN jsCtx' = UnsetJSCtxID(RootSlot)
             ELSE jsCtx' = jsCtx]_vars

\* C9 witness: Navigate("") returned nil after StopLoading failed.
C9_Witness ==
    /\ nav.pc = "ret" /\ nav.arg = "" /\ nav.sent = "about:blank"
    /\ nav.stop = "error" /\ nav.result = "nil"

\* C10: Reload returns nil only after its subscription has handed a
\* frameNavigated event of the frame of the page to the callback.
C10_NilOnlyAfterNavigated ==
    rel.result = "nil" =>
        /\ seen # <<>>
        /\ seen[Len(seen)] = FrameNavigated(SessionID[Self], FrameID[Self])

\* C4: once the scope of the page is cancelled, an operation suspended on
\* the page returns: Reload (in its evaluation or in the wait of EachEvent),
\* Close, the wait function of WaitRequestIdle, and WaitDOMStable, which
\* returns the cancellation error.
C4_CancelEndsWaits ==
    /\ (cancelled[Self] /\ rel.pc \in {"eval", "wait"}) ~> (rel.pc = "ret")
    /\ (cancelled[Self] /\ close[Self].pc \in {"call", "loop"}) ~> (close[Self].pc = "ret")
    /\ (cancelled[Self] /\ idle.pc = "wait") ~> (idle.pc = "ret")
    /\ (cancelled[Self] /\ stab.pc = "loop")
          ~> (stab.pc = "ret" /\ stab.result = "cancelled")

\* C4 witness: the wait of WaitRequestIdle returned on the cancellation of
\* the page, with a request still in flight.
C4_Witness ==
    /\ cancelled[Self]
    /\ idle.pc = "ret"
    /\ idle.waitList # {}
    /\ idle.tmr # "fired"

\* C11: after Navigate on the root page returned nil, the JS context handle
\* reads as unset from the root, from its context clones (which read the
\* root's slot) and from the clone ElementFromObject made for an object of
\* another execution context.
C11_NavigateClearsClones ==
    [][(NavigateReturns /\ nav'.on = "page" /\ nav'.result = "nil") =>
          /\ jsCtx'[SlotOf("page")] = ""
          /\ clone => jsCtx'[SlotOf("objclone")] = ""]_vars

\* The messages the wait of WaitRequestIdle has handed to its callbacks.
IdleTaken == SubSeq(wire, idle.sub + 1, idle.pos)

\* C12: a RequestWillBeSent whose id is already tracked adds no entry and
\* does not count: the idle counter is the size of the tracked set, a
\* repeated id leaves both unchanged, and after requestWillBeSent{r1},
\* requestWillBeSent{r1} one request is counted, and after the
\* loadingFinished{r1} that follows the set is empty and the counter zero.
C12_RedirectDedup ==
    /\ [](idle.job = Cardinality(idle.waitList))
    /\ [][(idle'.pos = idle.pos + 1
              /\ wire[idle'.pos].method = EvRequestWillBeSent
              /\ wire[idle'.pos].sid = SessionID[Self]
              /\ wire[idle'.pos].id \in idle.waitList)
            => (idle'.waitList = idle.waitList /\ idle'.job = idle.job)]_vars
    /\ [](IdleTaken = <<RequestWillBeSent("S1", "r1", "Document", "/a"),
                        RequestWillBeSent("S1", "r1", "Document", "/b")>>
            => (idle.waitList = {"r1"} /\ idle.job = 1))
    /\ [](IdleTaken = <<RequestWillBeSent("S1", "r1", "Document", "/a"),
                        RequestWillBeSent("S1", "r1", "Document", "/b"),
                        LoadingFinished("S1", "r1")>>
            => (idle.waitList = {} /\ idle.job = 0))

\* C12 witness: the wait has taken the request, its redirect and the
\* loadingFinished, and the timer is armed again.
C12_Witness ==
    /\ idle.pc = "wait"
    /\ IdleTaken = <<RequestWillBeSent("S1", "r1", "Document", "/a"),
                     RequestWillBeSent("S1", "r1", "Document", "/b"),
                     LoadingFinished("S1", "r1")>>
    /\ idle.tmr = "armed"

\* C13: the wait function of WaitRequestIdle returns only after the timer
\* fired, and the timer fires only when the tracked set has been empty for
\* the d ticks before; a request that gets tracked stops the timer.
C13_IdleInterval ==
    /\ [](idle.pc = "ret" => idle.tmr = "fired")
    /\ [][(idle.tmr # "fired" /\ idle'.tmr = "fired") => idle'.quiet >= IdleD]_vars
    /\ [][idle'.waitList \ idle.waitList # {} => idle'.tmr # "armed"]_vars

\* C14: WaitDOMStable returns nil only from a tick of its ticker, so after
\* an interval d, and only when the snapshot of that tick differs from the
\* one taken immediately before it by at most max_diff; until then the
\* snapshot it compares with is the latest one taken.
C14_DOMStable ==
    /\ stab.pc = "loop" => stab.prev = stab.last
    /\ (stab.pc = "ret" /\ stab.result = "nil") =>
          /\ stab.ticked
          /\ DomStable(stab.before, stab.last, stab.diff)

\* C14 witness: WaitDOMStable with max_diff 0 returned nil on two equal
\* consecutive snapshots of a document that had changed.
C14_Witness ==
    /\ stab.pc = "ret" /\ stab.result = "nil"
    /\ stab.diff = 0
    /\ stab.before = <<"a", "b">> /\ stab.last = <<"a", "b">>

\* C15: WaitStable returns only after its three tasks have ended, and it
\* returns an error when WaitLoad or WaitDOMStable returned one.
C15_WaitStable ==
    ws.pc = "ret" =>
        /\ ws.load # "run" /\ idle.pc = "ret" /\ ws.dom # "run"
        /\ (ws.load # "nil" \/ ws.dom # "nil") => ws.result # "nil"

\* The dialog-opening events of the page's session in a stretch of the wire.
OpeningsIn(from, to) ==
    SelectSeq(SubSeq(wire, from + 1, to),
              LAMBDA m : m.sid = SessionID[Self] /\ m.method = EvDialogOpening)

\* C16: when HandleDialog has returned, Page.enable has been sent unless the
\* domain was enabled already, and the subscription is in place: the wait
\* skips no dialog opened afterwards and returns the first of them; every
\* return of handle, with or without an error, has run the restore once,
\* which leaves the domain as it was before HandleDialog.
C16_HandleDialog ==
    /\ [](dlg.pc = "ready" =>
            /\ dlg.enable = (IF dlg.was THEN "already" ELSE dlg.enable)
            /\ dlg.enable # ""
            /\ (dlg.enable \in {"ok", "already"} /\ dlg.handled = 0) => dlg.domain
            /\ dlg.wpc = "wait" => OpeningsIn(dlg.sub, dlg.pos) = <<>>
            /\ dlg.wpc = "ret" =>
                  IF dlg.e = "" THEN cancelled[Self]
                  ELSE dlg.e = OpeningsIn(dlg.sub, Len(wire))[1].id
            /\ dlg.restores = dlg.handled)
    /\ [][dlg'.handled # dlg.handled =>
             /\ dlg'.restores = dlg.restores + 1
             /\ dlg'.domain = dlg.was]_vars

\* C16 witness: a dialog opened after HandleDialog returned was handed to
\* the wait, and a failed handle call restored the domain.
C16_Witness ==
    /\ dlg.wpc = "ret" /\ dlg.e = "d2"
    /\ dlg.sub > 0
    /\ dlg.enable = "ok"
    /\ dlg.herr = "error" /\ dlg.restores = 1 /\ ~dlg.domain

\* C17: when Screenshot has returned after its temporary override was
\* applied, the one device-metrics call it issued after that is the clear
\* when no override was stored before and the prior override otherwise,
\* whether the capture succeeded or failed; a Screenshot without fullPage
\* issues no device-metrics call.
C17_ScreenshotRestores ==
    shot.pc = "ret" =>
        /\ shot.applied =>
              shot.calls = <<"set:tmp", IF shot.set THEN "set:old" ELSE "clear">>
        /\ shot.applied => (shot.set <=> shot.oldView # "none")
        /\ ~shot.full => shot.calls = <<>>

\* C17 witness: a full-page Screenshot whose capture failed has re-applied
\* the override that was stored before.
C17_Witness ==
    /\ shot.pc = "ret" /\ shot.full /\ shot.applied
    /\ shot.result = "error"
    /\ shot.calls = <<"set:tmp", "set:old">>
    /\ shot.stored = "old"

\* The modifier mask of a set of keys, bit by bit: a bit is set when a key
\* of the set has it.
MaskOf(pressed) ==
    (IF \E k \in pressed : Modifier(k) = 8 THEN 8 ELSE 0)
    + (IF \E k \in pressed : Modifier(k) = 2 THEN 2 ELSE 0)

\* The event a step of the keyboard has sent, if it sent one.
KeySent == Len(kb'.log) = Len(kb.log) + 1

LastKey == kb'.log[Len(kb'.log)]

\* The types and keys of the events sent so far.
KeyTrace == [i \in 1..Len(kb.log) |-> <<kb.log[i].type, kb.log[i].key>>]

\* C18: a Release of a key that is not pressed sends nothing and leaves the
\* pressed set as it is; a Release of a pressed key removes it and sends a
\* keyUp with the mask of the set after the removal; so press Shift, press
\* A, release Shift, release A sends both keyUp events with modifiers 0.
C18_Release ==
    /\ [][(kb'.op = "release" /\ kb' # kb) =>
             IF kb'.arg \in kb.pressed
             THEN /\ kb'.pressed = kb.pressed \ {kb'.arg}
                  /\ KeySent
                  /\ LastKey = KeyEvent("keyUp", kb'.arg, MaskOf(kb'.pressed))
             ELSE kb'.pressed = kb.pressed /\ kb'.log = kb.log]_vars
    /\ [](KeyTrace = << <<"keyDown", "ShiftLeft">>, <<"keyDown", "KeyA">>,
                        <<"keyUp", "ShiftLeft">>, <<"keyUp", "KeyA">> >>
            => (kb.log[3].mods = 0 /\ kb.log[4].mods = 0))

\* C18 witness: Shift and A were pressed and released in that order.
C18_Witness ==
    /\ kb.pc = "idle"
    /\ kb.pressed = {}
    /\ KeyTrace = << <<"keyDown", "ShiftLeft">>, <<"keyDown", "KeyA">>,
                     <<"keyUp", "ShiftLeft">>, <<"keyUp", "KeyA">> >>

\* C19: the modifier mask is a function of the pressed set alone, the OR of
\* the modifier bits of the pressed keys and 0 for the empty set, and every
\* keyDown carries the mask of the set that already holds its key.
C19_ModifierMask ==
    /\ [](KeyboardModifiers(kb.pressed) = MaskOf(kb.pressed))
    /\ [](kb.pressed = {} => KeyboardModifiers(kb.pressed) = 0)
    /\ [][(KeySent /\ LastKey.type = "keyDown") =>
             /\ LastKey.key \in kb'.pressed
             /\ LastKey.mods = MaskOf(kb'.pressed)]_vars

\* C19 witness: with both Shift keys down, the keyDown of Control carried
\* Shift and Control.
C19_Witness ==
    /\ kb.pressed = {"ShiftLeft", "ShiftRight", "ControlLeft"}
    /\ Len(kb.log) = 3
    /\ kb.log[3] = KeyEvent("keyDown", "ControlLeft", 10)

\* C20: when Type(k) returns, no other keyboard call having run meanwhile,
\* the pressed set is the one at the time of the call.
C20_TypeKeepsPressed ==
    [][(kb.pc # "ret" /\ kb'.pc = "ret" /\ kb'.alone) => kb'.pressed = kb'.before]_vars


\* No button occurs twice in a sequence of held buttons.
NoDuplicates(buttons) ==
    \A i, j \in 1..Len(buttons) : buttons[i] = buttons[j] => i = j

\* C21: after any sequence of Down, Up and Click calls the held buttons of
\* the mouse never contain the same button twice.
C21_NoDuplicateButtons == NoDuplicates(ms.buttons)


\* A sequence of held buttons without its first entry equal to button.
RECURSIVE WithoutFirst(_, _)
WithoutFirst(buttons, button) ==
    IF buttons = <<>> THEN <<>>
    ELSE IF Head(buttons) = button THEN Tail(buttons)
    ELSE <<Head(buttons)>> \o WithoutFirst(Tail(buttons), button)

\* A step in which the mouse has sent an event, and the event.
MouseSent == ms'.sent = ms.sent + 1

LastMouse == ms'.last

\* C22: a successful Down(b) appends b at the end of the held buttons, and
\* a successful Up(b) removes exactly the first entry equal to b and keeps
\* the other entries in their order.
C22_ButtonStack ==
    [][(MouseSent /\ ms'.result = "ok") =>
          /\ ms'.op = "down" => ms'.buttons = Append(ms.buttons, ms'.arg)
          /\ ms'.op = "up" => ms'.buttons = WithoutFirst(ms.buttons, ms'.arg)]_vars

\* The Buttons field of a sequence of held buttons, bit by bit.
ButtonMaskOf(buttons) ==
    (IF \E i \in 1..Len(buttons) : buttons[i] = "left" THEN 1 ELSE 0)
    + (IF \E i \in 1..Len(buttons) : buttons[i] = "right" THEN 2 ELSE 0)

\* C23: when the call of MoveTo fails the position is unchanged, and when
\* the call of Down or Up fails the held buttons are unchanged; after a
\* successful MoveTo the position is the target point, and after a
\* successful Down or Up the held buttons are those encoded in the event.
C23_ChangeOnSuccess ==
    [][MouseSent =>
          /\ ms'.result # "ok" => (ms'.pos = ms.pos /\ ms'.buttons = ms.buttons)
          /\ (ms'.result = "ok" /\ ms'.op = "move") =>
                (ms'.pos = ms'.arg /\ LastMouse.x = ms'.arg /\ ms'.buttons = ms.buttons)
          /\ (ms'.result = "ok" /\ ms'.op \in {"down", "up"}) =>
                (ButtonMaskOf(ms'.buttons) = LastMouse.buttons /\ ms'.pos = ms.pos)]_vars

\* C23 witness: with the left button held after a successful Down, a MoveTo
\* to another point has failed.
C23_Witness ==
    /\ ms.buttons = <<"left">>
    /\ ms.op = "move"
    /\ ms.result = "error"
    /\ ms.arg = 12
    /\ ms.pos = 0
    /\ ms.last.buttons = 1


\* C24: when Do returns, no key that one of its Press or Type actions
\* pressed is in the pressed set of the keyboard.
C24_DoReleasesAll ==
    [][(ka.pc # "ret" /\ ka'.pc = "ret") => ka'.did \cap kb'.pressed = {}]_vars


\* The last action of a list on a key is a Press.
LastIsPress(actions, key) ==
    \E i \in DOMAIN actions :
        /\ actions[i] = KeyAction("press", key)
        /\ \A j \in DOMAIN actions : j > i => actions[j].key # key

\* What balance appended to the actions in a list it returned.
Appended(actions, sched) == SubSeq(sched, Len(actions) + 1, Len(sched))

\* A list is the actions, unchanged and in order, followed by exactly one
\* Release for each key whose last action is a Press and by nothing else.
Balanced(actions, sched) ==
    /\ Len(sched) >= Len(actions)
    /\ SubSeq(sched, 1, Len(actions)) = actions
    /\ LET tail == Appended(actions, sched)
       IN  /\ \A i \in DOMAIN tail :
                 tail[i].type = "release" /\ LastIsPress(actions, tail[i].key)
           /\ \A key \in ActionKeys :
                 LastIsPress(actions, key) =>
                     Cardinality({i \in DOMAIN tail : tail[i].key = key}) = 1

\* Do is running.
InDo == ka.pc \in {"run", "type"}

\* The second Do runs on the actions the first one ran on.
SecondDo == InDo /\ ka.runs = 2 /\ ka.actions = ka.base

\* C27 as stated: the list Do runs is the scheduled actions followed by one
\* Release per key whose last action is a Press; Do leaves ka.Actions as it
\* is; and a second Do runs the very list the first one ran.
C27_BalanceSameList ==
    /\ [](InDo => Balanced(ka.actions, ka.sched))
    /\ [][(ka.pc \in {"run", "type"} \/ ka'.pc \in {"run", "type"}) =>
             ka'.actions = ka.actions]_vars
    /\ [](SecondDo => ka.sched = ka.first)

\* C27 amended: as above, but the second Do runs the same actions followed
\* by a Release of the same keys, in an order that may differ from the
\* first.
C27_Balance ==
    /\ [](InDo => Balanced(ka.actions, ka.sched))
    /\ [][(ka.pc \in {"run", "type"} \/ ka'.pc \in {"run", "type"}) =>
             ka'.actions = ka.actions]_vars
    /\ [](SecondDo =>
            /\ Len(ka.sched) = Len(ka.first)
            /\ SubSeq(ka.sched, 1, Len(ka.actions)) = SubSeq(ka.first, 1, Len(ka.actions))
            /\ {a.key : a \in {Appended(ka.actions, ka.sched)[i] :
                                  i \in 1..(Len(ka.sched) - Len(ka.actions))}}
               = {a.key : a \in {Appended(ka.actions, ka.first)[i] :
                                  i \in 1..(Len(ka.first) - Len(ka.actions))}})

\* C27 witness: Do has run twice on press Control, press Shift, release
\* Control, each time with one Release of Shift appended.
C27_Witness ==
    /\ ka.pc = "ret"
    /\ ka.runs = 2
    /\ ka.result = "nil"
    /\ ka.actions = <<KeyAction("press", "ControlLeft"), KeyAction("press", "ShiftLeft"),
                      KeyAction("release", "ControlLeft")>>
    /\ ka.base = ka.actions
    /\ ka.sched = ka.actions \o <<KeyAction("release", "ShiftLeft")>>
    /\ ka.first = ka.sched


\* The moves of a MoveLinear of n steps from one point to another: n - 1 at
\* equal increments from the start, the last at the target.
LinearMoves(from, to, n) ==
    [i \in 1..n |-> IF i = n THEN to ELSE from + i * ((to - from) \div n)]

\* Every move MoveLinear has made so far has succeeded.
MovesSucceeded == ml.pc = "run" \/ (ml.pc = "ret" /\ ml.result = "nil")

\* C26: a MoveLinear whose moves all succeed returns, for every steps: it
\* is never still running after MaxMoves moves, more than any steps it is
\* called with here; for steps = n >= 1 it has made exactly the n moves of
\* LinearMoves when it returns; and the round in which the guide function
\* says stop is the last one.
C26_MoveLinear ==
    /\ [](ml.pc = "run" => Len(ml.moves) < MaxMoves)
    /\ []((ml.pc = "ret" /\ ml.result = "nil" /\ ml.steps >= 1) =>
            ml.moves = LinearMoves(ml.from, ml.to, ml.steps))
    /\ [][(ml'.count = ml.count + 1 /\ ml'.count = ml.steps) =>
             (ml'.pc = "ret" /\ ms'.last.x = ml.to)]_vars


\* C25: the cancel of the scope Reload or WaitRequestIdle derived leaves
\* the scope of the page as it was; the scope of the page is cancelled only
\* by the end of its session; so after either has returned, with the
\* session alive, a call on the page is not aborted.
C25_ChildScope ==
    /\ [][((rel'.done /\ ~rel.done) \/ (idle'.done /\ ~idle.done)) =>
             cancelled' = cancelled]_vars
    /\ [](cancelled[Self] => disp[Self].pc = "done")
    /\ []((rel.pc = "ret" \/ idle.pc = "ret") /\ disp[Self].pc # "done" =>
            CallOutcomes(Self) = {"ok", "error"})

\* C25 witness: Reload and the wait of WaitRequestIdle have returned, the
\* first having cleared the context handle, and an evaluation made on the
\* page after that has succeeded.
C25_Witness ==
    /\ rel.pc = "ret"
    /\ rel.result = "nil"
    /\ rel.done
    /\ idle.pc = "ret"
    /\ idle.done
    /\ ~cancelled[Self]
    /\ jsCtx[RootSlot] # ""


\* The envelopes of a sequence that came on the session of page p, in order.
OfSession(p, msgs) == SelectSeq(msgs, LAMBDA m : m.sid = SessionID[p])

\* The envelopes the dispatcher of page p has taken before the first
\* termination signal of the page among them: all it has taken when there is
\* none.
BeforeSignal(p) ==
    LET signals == {i \in 1..disp[p].pos :
                       wire[i] \in {Destroyed(TargetID[p]), Detached(SessionID[p])}}
    IN  IF signals = {} THEN SubSeq(wire, 1, disp[p].pos)
        ELSE SubSeq(wire, 1, (CHOOSE i \in signals : \A j \in signals : i <= j) - 1)

\* C28: what the dispatcher of a page has published is exactly the
\* envelopes of the page's session among those it took before the first
\* termination signal, in the order of the transport: none of another
\* session, not the signal, nothing after it; and what a subscriber has been
\* given is a run of that sequence.
C28_DispatcherPublishes ==
    /\ \A p \in Pages : pageLog[p] = OfSession(p, BeforeSignal(p))
    /\ ev.pc # "none" =>
          \E k \in 0..Len(pageLog[Self]) :
              /\ k + Len(EventTaken) <= Len(pageLog[Self])
              /\ EventTaken = SubSeq(pageLog[Self], k + 1, k + Len(EventTaken))


\* C29: a Page.close call of Close ends in one of three ways.  Answered
\* NotAttachedToActivePage, it is repeated, with the lock held and nothing
\* else changed; accepted, Close goes on to the event wait, from the
\* subscription point, having taken no event; failed in any other way, the
\* cancellation of the scope included, Close returns that error at once,
\* with no event taken and no cleanup.
C29_CloseCall ==
    [][\A p \in Pages :
          (close[p].pc = "call" /\ close'[p] # close[p]) =>
              \/ /\ close'[p] = [close[p] EXCEPT !.tries = @ + 1]
                 /\ lock' = p
                 /\ cleaned' = cleaned
              \/ /\ close'[p].pc = "loop"
                 /\ close'[p].pos = close[p].pos
                 /\ close'[p].success
                 /\ lock' = p
                 /\ cleaned' = cleaned
              \/ /\ close'[p].pc = "ret"
                 /\ close'[p].result \in {"error", "cancelled"}
                 /\ close'[p].result = "cancelled" <=> cancelled[p]
                 /\ close'[p].last = NoMsg
                 /\ cleaned' = cleaned
                 /\ ~cleaned'[p]]_vars

\* C29 witness: Close on the second page returned the error of its call
\* without cleanup, and Close on the first page is repeating a call that was
\* answered NotAttachedToActivePage.
C29_Witness ==
    /\ close["P2"].pc = "ret"
    /\ close["P2"].result = "error"
    /\ ~cleaned["P2"]
    /\ close["P1"].pc = "call"
    /\ close["P1"].tries = 1
    /\ lock = "P1"


\* C30: under any interleaving of two callers of Press and Release, a
\* caller holds the mutex of the keyboard from its change of the pressed set
\* until its call has returned; the events reach the browser in the order
\* of the changes; and each event carries the modifier mask of the pressed
\* set at the moment it is sent.
C30_LockAcrossCall ==
    /\ [](\A c \in Callers : kt.pc[c] = "call" => kt.holder = c)
    /\ [](/\ Len(kb.log) <= Len(kt.muts)
          /\ kb.log = SubSeq(kt.muts, 1, Len(kb.log)))
    /\ [][KeySent => LastKey.mods = MaskOf(kb.pressed)]_vars

\* C30 witness: with Shift down, one caller has added A to the pressed set
\* and is in its call while the other waits for the mutex.
C30_Witness ==
    /\ kb.log = <<KeyEvent("keyDown", "ShiftLeft", 8)>>
    /\ kt.pc["c1"] = "call"
    /\ kt.ev["c1"] = KeyEvent("keyDown", "KeyA", 8)
    /\ kt.holder = "c1"
    /\ kt.pc["c2"] = "wait"
    /\ kt.ev["c2"].key = "ShiftLeft"


\* C31: the channel of Page.Event delivers the messages of its subscription
\* in order; once the scope of the page is cancelled the forwarding
\* goroutine returns and closes the channel, whether or not the reader still
\* reads; and nothing is delivered on a closed channel.
C31_EventChannel ==
    /\ [](ev.pc # "none" =>
            /\ ev.sub + Len(got) <= Len(pageLog[Self])
            /\ got = SubSeq(pageLog[Self], ev.sub + 1, ev.sub + Len(got)))
    /\ (cancelled[Self] /\ ev.pc \in {"recv", "send"}) ~> (ev.pc = "closed")
    /\ [][ev.pc = "closed" => (ev'.pc = "closed" /\ got' = got)]_vars

\* C31 witness: the channel was closed while the goroutine had a message
\* nobody read, after an earlier message was delivered.
C31_Witness ==
    /\ ev.pc = "closed"
    /\ cancelled[Self]
    /\ got # <<>>
    /\ ev.pos > ev.sub + Len(got)


\* The step in which the wait of WaitRequestIdle hands loadingFinished or
\* loadingFailed of the session of the page to checkDone.
IdleTakesEnd ==
    /\ idle.pc = "wait"
    /\ idle'.pos = idle.pos + 1
    /\ wire[idle'.pos].method \in {EvLoadingFinished, EvLoadingFailed}
    /\ wire[idle'.pos].sid = SessionID[Self]

\* C32: in WaitRequestIdle the idle counter always equals the size of the
\* tracked set and is never below zero; loadingFinished or loadingFailed
\* for an id that is not tracked changes neither the set nor the counter
\* (nor its timer), and for a tracked id removes it and counts one less.
C32_CounterIsSetSize ==
    /\ [](idle.job >= 0 /\ idle.job = Cardinality(idle.waitList))
    /\ [][(IdleTakesEnd /\ wire[idle'.pos].id \notin idle.waitList)
            => idle' = [idle EXCEPT !.pos = @ + 1]]_vars
    /\ [][(IdleTakesEnd /\ wire[idle'.pos].id \in idle.waitList)
            => (/\ idle'.waitList = idle.waitList \ {wire[idle'.pos].id}
                /\ idle'.job = idle.job - 1)]_vars

\* C32 witness: a request was tracked and removed by loadingFinished, and
\* the wait has then taken loadingFailed for the same id with an empty set.
C32_Witness ==
    /\ idle.pc = "wait"
    /\ IdleTaken = <<RequestWillBeSent("S1", "r1", "Document", "/a"),
                     LoadingFinished("S1", "r1"), LoadingFailed("S1", "r1")>>
    /\ idle.waitList = {}
    /\ idle.job = 0


\* The step in which ScrollScreenshot has captured a slice.
ScrollCaptured == Len(ss'.clips) = Len(ss.clips) + 1

\* C33: a ScrollScreenshot whose calls all succeed returns, for every
\* layout and every option: it is never still in its loop after MaxSlices
\* slices, more than any layout here needs at one pixel a slice; each slice
\* advances scrollTop by the height of the viewport less FixedTop +
\* FixedBottom; and the loop ends with the slice after which scrollTop has
\* reached the height of the content.
C33_ScrollTerminates ==
    /\ [](ss.pc \in {"capture", "scroll", "stable"} => Len(ss.clips) < MaxSlices)
    /\ [][ScrollCaptured =>
             ss'.scrollTop = ss.scrollTop
                               + (ss.viewpointHeight - (ss.fixedTop + ss.fixedBottom))]_vars
    /\ [][ScrollCaptured =>
             (ss'.pc = "splice" <=> ss'.scrollTop >= ss.contentHeight)]_vars


\* The callers that are inside an operation of an input device.
InputBusy ==
    {c \in Callers : kt.pc[c] # "idle"}
        \cup {c \in MouseCallers \cup TouchCallers : pt.pc[c] \notin {"idle", "ret"}}

\* C34: no interleaving of operations of the keyboard, the mouse and the
\* touch device of one page deadlocks: whenever a caller is inside an
\* operation, some caller inside an operation can take its next step.  A
\* caller of the mouse or of the touch device holds the mutex of the keyboard
\* only while it reads the modifiers, a caller of the mouse with the mutex of
\* the mouse in its hands; a caller of the keyboard never holds the mutex of
\* the mouse; and a caller that has returned, with nil or with an error,
\* holds no mutex.
C34_NoDeadlock ==
    /\ InputBusy # {} => ENABLED InputStep
    /\ \A c \in MouseCallers \cup TouchCallers :
          kt.holder = c => (pt.pc[c] = "mods" /\ (c \in MouseCallers => pt.holder = c))
    /\ pt.holder \in MouseCallers \cup {""}
    /\ \A c \in Callers : kt.pc[c] = "idle" => kt.holder # c
    /\ \A c \in MouseCallers \cup TouchCallers :
          pt.pc[c] \in {"idle", "ret"} => (kt.holder # c /\ pt.holder # c)

\* C34 witness: a caller of the keyboard is in its call with the mutex of
\* the keyboard, a caller of the mouse holds the mutex of the mouse and
\* waits for that of the keyboard, the other caller of the mouse waits for
\* the mutex of the mouse after a call of its own failed, and the caller of
\* the touch device waits for the mutex of the keyboard.
C34_Witness ==
    /\ kt.pc["c1"] = "call"
    /\ kt.holder = "c1"
    /\ pt.holder = "m1"
    /\ pt.pc["m1"] = "kwait"
    /\ pt.pc["m2"] = "enter"
    /\ ms.op = "down"
    /\ ms.result = "error"
    /\ pt.pc["t1"] = "kwait"

====
